---- MODULE Spec2Model ----
(***************************************************************************)
(* Model of sped_analyzer.py: the single-pass SPED parser                  *)
(* (parse_sped_file), the batch driver (main) and the sheet selection of   *)
(* aggregate_records.                                                      *)
(*                                                                         *)
(* A line is modelled by its field list `parts` (the result of             *)
(* line.split('|')); Python index i is TLA+ index i+1.  A dict is a        *)
(* function from column names to values.                                   *)
(***************************************************************************)
EXTENDS Integers, Sequences, FiniteSets, TLC

VARIABLES
    pc,                      \* control point of main / parse_sped_file
    file_path,               \* path of the file being parsed
    xml_map,                 \* access key -> XML comparison values
    tipi,                    \* NCM -> nominal IPI rate
    lines,                   \* lines of f consumed so far (field lists)
    record,                  \* the SpedRecord being filled
    ncm_map,                 \* cod_item -> NCM
    desc_map,                \* cod_item -> description
    current_note,
    current_note_key,
    current_note_is_entry,
    current_note_has_c190,
    current_cte,
    current_e200,            \* open E200 context
    current_e300,            \* open E300 context
    current_e310,            \* E300 context completed by an E310
    current_e500,            \* open E500 context
    master,
    block_flags,
    path_i,                  \* number of args.sped paths main has taken
    records,                 \* main's list of SpedRecord
    files,                   \* path and lines of the file of each record
    sheets,                  \* result of aggregate_records
    main_ret                 \* exit status of main

block_locals == <<current_e200, current_e300, current_e310, current_e500>>
parser_locals == <<ncm_map, desc_map, current_note, current_note_key,
                   current_note_is_entry, current_note_has_c190,
                   current_cte, block_locals, master, block_flags>>
main_vars == <<path_i, records, files, sheets, main_ret>>
inputs == <<file_path, xml_map, tipi>>
vars == <<pc, lines, record, parser_locals, main_vars, inputs>>

-----------------------------------------------------------------------------
(* Bounds *)

MaxLines == 3          \* lines of one file in the single-file specification
MaxBatchLines == 2     \* lines of one file in the batch specification
MaxFiles == 2          \* paths on main's command line
MaxRows == 2           \* rows of a collection handed to aggregate_records

-----------------------------------------------------------------------------
(* Python values *)

\* None is a value different from every dict, the empty dict <<>> included
None == ("__none__" :> TRUE)

\* None of an Optional[str]
NoneStr == "__none__"

\* dict.update: the keys of u override those of d
Update(d, u) == u @@ d

\* str.strip over the field texts of the model (" " is the blank field)
strip(s) == IF s = " " THEN "" ELSE s

\* float() over the numerals of the model; any other text raises
FloatOf == ("0" :> 0 @@ "7" :> 7 @@ "10" :> 10 @@ "15" :> 15 @@ "100" :> 100
            @@ "-100" :> (0 - 100) @@ "30" :> 30 @@ "50" :> 50)

\* parse_float_br whose except clause returns 1.0
parse_float_br_One(value) ==
    IF value = "" THEN 0
    ELSE LET v == strip(value) IN
         IF v = "" THEN 0
         ELSE IF v \in DOMAIN FloatOf THEN FloatOf[v]
         ELSE 1

parse_float_br(value) ==
    IF value = "" THEN 0
    ELSE LET v == strip(value) IN
         IF v = "" THEN 0
         ELSE IF v \in DOMAIN FloatOf THEN FloatOf[v]   \* float(value)
         ELSE 0                                        \* except Exception

\* cfop.replace('.', '')
replace_dots(s) ==
    IF s = "1.556" THEN "1556"
    ELSE IF s = "6.403" THEN "6403"
    ELSE IF s = "5.102" THEN "5102"
    ELSE s

\* parts[i].strip() if len(parts) > i else ''
Field(parts, i) == IF Len(parts) > i THEN strip(parts[i + 1]) ELSE ""

\* parse_float_br(parts[i]) if len(parts) > i else 0.0
Num(parts, i) == IF Len(parts) > i THEN parse_float_br(parts[i + 1]) ELSE 0

\* rec = parts[1] if len(parts) > 1 else ''
Rec(parts) == IF Len(parts) > 1 THEN parts[2] ELSE ""

\* NumAlt that tries the lower position first
NumAlt_LowFirst(parts, hi, lo) ==
    IF Len(parts) > lo /\ strip(parts[lo + 1]) # "" THEN parse_float_br(parts[lo + 1])
    ELSE IF Len(parts) > hi /\ strip(parts[hi + 1]) # "" THEN parse_float_br(parts[hi + 1])
    ELSE 0

\* the position whose branch of the if/elif is taken, -1 when neither is
SrcAlt(parts, hi, lo) ==
    IF Len(parts) > hi /\ strip(parts[hi + 1]) # "" THEN hi
    ELSE IF Len(parts) > lo /\ strip(parts[lo + 1]) # "" THEN lo
    ELSE 0 - 1

\* if len(parts) > hi and parts[hi].strip(): ... elif len(parts) > lo and ...
NumAlt(parts, hi, lo) ==
    IF Len(parts) > hi /\ strip(parts[hi + 1]) # "" THEN parse_float_br(parts[hi + 1])
    ELSE IF Len(parts) > lo /\ strip(parts[lo + 1]) # "" THEN parse_float_br(parts[lo + 1])
    ELSE 0

-----------------------------------------------------------------------------
(* Input lines *)

\* the field list of a line '|tag|...|' with n fields; a gives the texts of
\* the non-empty fields by Python index
MkLine(tag, n, a) ==
    [i \in 1..n |-> IF i = 2 THEN tag
                    ELSE IF (i - 1) \in DOMAIN a THEN a[i - 1] ELSE ""]

L0000 == MkLine("0000", 17, 3 :> "01012024" @@ 4 :> "31012024" @@ 6 :> "ACME"
                            @@ 7 :> "CNPJ1" @@ 10 :> "3550308")
\* header lines of February; with a period start that is not a date of 8
\* digits; with a period start of January and a period end of February; with
\* no valid date; and cut after the period end
L0000Feb       == MkLine("0000", 17, 3 :> "01022024" @@ 4 :> "29022024" @@ 6 :> "ACME"
                                     @@ 7 :> "CNPJ1")
L0000BadStart  == MkLine("0000", 17, 3 :> "0102202A" @@ 4 :> "29022024" @@ 6 :> "ACME"
                                     @@ 7 :> "CNPJ1")
L0000StartWins == MkLine("0000", 17, 3 :> "01012024" @@ 4 :> "29022024" @@ 6 :> "ACME"
                                     @@ 7 :> "CNPJ1")
L0000NoDates   == MkLine("0000", 17, 3 :> "2024" @@ 6 :> "ACME" @@ 7 :> "CNPJ1")
L0000Short     == MkLine("0000", 7, 3 :> "01022024" @@ 4 :> "29022024")
L0200 == MkLine("0200", 14, 2 :> "P001" @@ 3 :> "Widget" @@ 8 :> "12345678")

LC100Out   == MkLine("C100", 31, 2 :> "1" @@ 9 :> "K1" @@ 12 :> "100"
                                 @@ 21 :> "100" @@ 22 :> "15" @@ 25 :> "0")
LC100In    == MkLine("C100", 31, 2 :> "0" @@ 9 :> "K2" @@ 12 :> "100"
                                 @@ 21 :> "100" @@ 22 :> "15" @@ 25 :> "0")
\* a header whose numeric fields are not numbers
LC100Bad   == MkLine("C100", 31, 2 :> "1" @@ 9 :> "K3" @@ 12 :> "abc"
                                 @@ 21 :> "x" @@ 22 :> "1,,5" @@ 25 :> "?")
\* a header with an unrecognised IND_OPER
LC100Other == MkLine("C100", 31, 2 :> "2" @@ 9 :> "K4" @@ 12 :> "100")

LC170      == MkLine("C170", 40, 2 :> "1" @@ 3 :> "P001" @@ 7 :> "100" @@ 10 :> "000"
                                 @@ 11 :> "1102" @@ 13 :> "100" @@ 14 :> "15"
                                 @@ 15 :> "15" @@ 20 :> "50" @@ 23 :> "10" @@ 24 :> "10")
\* an item line cut after field 19
LC170Short == MkLine("C170", 20, 2 :> "3" @@ 3 :> "P001" @@ 7 :> "100" @@ 11 :> "1102"
                                 @@ 15 :> "15")
\* an item line whose numeric fields are not numbers
LC170Bad   == MkLine("C170", 40, 2 :> "4" @@ 3 :> "P001" @@ 7 :> "abc" @@ 10 :> "000"
                                 @@ 11 :> "1102" @@ 13 :> "x" @@ 14 :> "x"
                                 @@ 15 :> "x" @@ 20 :> "50" @@ 23 :> "x" @@ 24 :> "x")

\* catalog lines with a blank classification, a blank description, a blank
\* product code, and one cut after the product code
L0200NoNcm  == MkLine("0200", 14, 2 :> "P001" @@ 3 :> "Gadget" @@ 8 :> " ")
L0200NoDesc == MkLine("0200", 14, 2 :> "P001" @@ 8 :> "87654321")
L0200NoCode == MkLine("0200", 14, 2 :> " " @@ 3 :> "Gadget" @@ 8 :> "87654321")
L0200Short  == MkLine("0200", 4, 2 :> "P001")
L0200Second == MkLine("0200", 14, 2 :> "P002" @@ 3 :> "Gadget" @@ 8 :> "87654321")
\* a catalog line whose NCM is not in the TIPI table
L0200Unlisted == MkLine("0200", 14, 2 :> "P001" @@ 3 :> "Widget" @@ 8 :> "99999999")
\* an item line that declares the IPI rate 7
LC170Seven == MkLine("C170", 40, 2 :> "5" @@ 3 :> "P001" @@ 7 :> "100" @@ 10 :> "000"
                                 @@ 11 :> "1102" @@ 13 :> "100" @@ 14 :> "15"
                                 @@ 15 :> "15" @@ 20 :> "50" @@ 23 :> "7" @@ 24 :> "7")
\* an item line with tax but with item value 0 and no IPI
LC170ZeroValue == MkLine("C170", 40, 2 :> "6" @@ 3 :> "P001" @@ 7 :> "0" @@ 10 :> "000"
                                 @@ 11 :> "1102" @@ 13 :> "100" @@ 14 :> "15"
                                 @@ 15 :> "15" @@ 20 :> "50")
\* an item line with a negative item value
LC170Neg   == MkLine("C170", 40, 2 :> "7" @@ 3 :> "P001" @@ 7 :> "-100" @@ 10 :> "000"
                                 @@ 11 :> "1102" @@ 13 :> "100" @@ 14 :> "15"
                                 @@ 15 :> "15" @@ 20 :> "50" @@ 23 :> "10" @@ 24 :> "10")

LC190      == MkLine("C190", 14, 2 :> "000" @@ 3 :> "5102" @@ 4 :> "15" @@ 5 :> "100"
                                 @@ 6 :> "100" @@ 7 :> "15" @@ 11 :> "0")
\* a summary line cut after the rate field, which is not a number
LC190Short == MkLine("C190", 5, 2 :> "000" @@ 3 :> "5102" @@ 4 :> "abc")

\* a summary line with tax but with tax base 0
LC190ZeroBase == MkLine("C190", 14, 2 :> "000" @@ 3 :> "5102" @@ 4 :> "15" @@ 5 :> "100"
                                 @@ 6 :> "0" @@ 7 :> "15" @@ 11 :> "0")
\* a summary line with a negative tax base
LC190Neg   == MkLine("C190", 14, 2 :> "000" @@ 3 :> "5102" @@ 4 :> "15" @@ 5 :> "100"
                                 @@ 6 :> "-100" @@ 7 :> "15" @@ 11 :> "0")

\* an outbound header with a negative document total and IPI 10
LC100OutNeg == MkLine("C100", 31, 2 :> "1" @@ 9 :> "K5" @@ 12 :> "-100"
                                 @@ 21 :> "100" @@ 22 :> "15" @@ 25 :> "10")
\* an item line with ICMS 30 and no IPI
LC170Thirty == MkLine("C170", 40, 2 :> "8" @@ 3 :> "P001" @@ 7 :> "100" @@ 10 :> "000"
                                 @@ 11 :> "1102" @@ 13 :> "100" @@ 14 :> "30"
                                 @@ 15 :> "30" @@ 20 :> "50")
\* a summary line with ICMS 50
LC190Fifty == MkLine("C190", 14, 2 :> "000" @@ 3 :> "5102" @@ 4 :> "50" @@ 5 :> "100"
                                 @@ 6 :> "100" @@ 7 :> "50" @@ 11 :> "0")

\* item lines of fixed-asset/consumption codes: with ICMS and IPI, with IPI
\* only, without tax, and with a negative ICMS amount
LC170Uso      == MkLine("C170", 40, 2 :> "1" @@ 3 :> "P001" @@ 7 :> "100" @@ 10 :> "000"
                                    @@ 11 :> "1.556" @@ 13 :> "100" @@ 14 :> "15"
                                    @@ 15 :> "15" @@ 20 :> "50" @@ 23 :> "10" @@ 24 :> "10")
LC170UsoIpi   == MkLine("C170", 40, 2 :> "2" @@ 3 :> "P001" @@ 7 :> "100" @@ 10 :> "000"
                                    @@ 11 :> "1407" @@ 20 :> "50" @@ 23 :> "10" @@ 24 :> "10")
LC170UsoClean == MkLine("C170", 40, 2 :> "3" @@ 3 :> "P001" @@ 7 :> "100" @@ 10 :> "000"
                                    @@ 11 :> "2551" @@ 15 :> "0" @@ 20 :> "50" @@ 24 :> "0")
LC170UsoNeg   == MkLine("C170", 40, 2 :> "4" @@ 3 :> "P001" @@ 7 :> "100" @@ 10 :> "000"
                                    @@ 11 :> "2406" @@ 15 :> "-100" @@ 20 :> "50")

LD100      == MkLine("D100", 28, 7 :> "1" @@ 9 :> "77" @@ 10 :> "KC1" @@ 15 :> "100"
                                 @@ 18 :> "100" @@ 20 :> "7")
LD190      == MkLine("D190", 11, 2 :> "000" @@ 3 :> "1353" @@ 4 :> "7" @@ 5 :> "100"
                                 @@ 6 :> "100" @@ 7 :> "7")
LE115      == MkLine("E115", 6, 2 :> "SP3" @@ 3 :> "15" @@ 4 :> "info")
LE116      == MkLine("E116", 12, 2 :> "OR1" @@ 3 :> "100" @@ 5 :> "REC1")
\* an observation line whose text is blank
LC195Blank == MkLine("C195", 5, 2 :> "OBS2")
LE200      == MkLine("E200", 6, 2 :> "SP" @@ 3 :> "01012024" @@ 4 :> "31012024")
\* a block opener cut after the state
LE200Short == MkLine("E200", 4, 2 :> "RJ")
LE210      == MkLine("E210", 5, 2 :> "1")
LE300      == MkLine("E300", 6, 2 :> "MG" @@ 3 :> "01012024" @@ 4 :> "31012024")
LE300Short == MkLine("E300", 4, 2 :> "RJ")
LE310      == MkLine("E310", 12, 2 :> "1" @@ 9 :> "50")
LE316      == MkLine("E316", 11, 2 :> "REC1" @@ 3 :> "30" @@ 4 :> "15022024")
LE500      == MkLine("E500", 6, 2 :> "0" @@ 3 :> "01012024" @@ 4 :> "31012024")
LE510      == MkLine("E510", 8, 2 :> "5102" @@ 3 :> "50" @@ 4 :> "100" @@ 5 :> "100"
                                @@ 6 :> "10")
LC195      == MkLine("C195", 5, 2 :> "OBS1" @@ 3 :> "DIFAL")
LC197      == MkLine("C197", 10, 2 :> "SP1" @@ 3 :> "ajuste" @@ 7 :> "10")
LE111      == MkLine("E111", 6, 2 :> "SP2" @@ 3 :> "credito" @@ 4 :> "15")
\* summary lines of the special-regime codes: ST with divergence, ST only,
\* DIFAL, and ST written with a dot
LC190St     == MkLine("C190", 14, 2 :> "010" @@ 3 :> "5401" @@ 4 :> "15" @@ 5 :> "100"
                                  @@ 6 :> "100" @@ 7 :> "15" @@ 11 :> "0")
LC190StOnly == MkLine("C190", 14, 2 :> "060" @@ 3 :> "5405" @@ 5 :> "100")
LC190Difal  == MkLine("C190", 14, 2 :> "000" @@ 3 :> "6107" @@ 4 :> "15" @@ 5 :> "100"
                                  @@ 6 :> "100" @@ 7 :> "15" @@ 11 :> "0")
LC190Dotted == MkLine("C190", 14, 2 :> "010" @@ 3 :> "6.403" @@ 5 :> "100")
\* a line of register G110, which no branch reads
LG110       == MkLine("G110", 4, 2 :> "01012024" @@ 3 :> "31012024")
\* outbound headers of the optional layouts: both positions of every number
\* filled; only the lower positions filled; the higher position of the total
\* blank; the line cut after field 11; the higher position of the total not
\* a number
LC100Both      == MkLine("C100", 31, 2 :> "1" @@ 9 :> "K6" @@ 11 :> "50" @@ 12 :> "100"
                                     @@ 20 :> "30" @@ 21 :> "100" @@ 22 :> "15"
                                     @@ 24 :> "7" @@ 25 :> "10")
LC100Low       == MkLine("C100", 31, 2 :> "1" @@ 9 :> "K7" @@ 11 :> "50"
                                     @@ 20 :> "30" @@ 21 :> "15" @@ 24 :> "7")
LC100BlankHigh == MkLine("C100", 31, 2 :> "1" @@ 9 :> "K8" @@ 11 :> "50" @@ 12 :> " "
                                     @@ 20 :> "30" @@ 22 :> "15" @@ 24 :> "7" @@ 25 :> " ")
LC100Short     == MkLine("C100", 12, 2 :> "0" @@ 9 :> "K9" @@ 11 :> "50")
LC100BadHigh   == MkLine("C100", 31, 2 :> "1" @@ 9 :> "K10" @@ 11 :> "50" @@ 12 :> "abc")
\* block openers of a second state and period
LE200Rj    == MkLine("E200", 6, 2 :> "RJ" @@ 3 :> "01022024" @@ 4 :> "29022024")
LE300Pr    == MkLine("E300", 6, 2 :> "PR" @@ 3 :> "01022024" @@ 4 :> "29022024")
\* summary lines of an other-outbound code of the explicit set, of one that
\* only has the prefix 59, of a revenue code written with a dot, and of a
\* cost code; an item line of a revenue code
LC190Other  == MkLine("C190", 14, 2 :> "000" @@ 3 :> "5949" @@ 5 :> "100" @@ 7 :> "7")
LC190Return == MkLine("C190", 14, 2 :> "000" @@ 3 :> "5901" @@ 5 :> "100" @@ 7 :> "10")
LC190Dot    == MkLine("C190", 14, 2 :> "000" @@ 3 :> "5.102" @@ 5 :> "100" @@ 7 :> "30")
LC190Cost   == MkLine("C190", 14, 2 :> "000" @@ 3 :> "1102" @@ 5 :> "100" @@ 7 :> "50")
LC170Rev    == MkLine("C170", 40, 2 :> "9" @@ 3 :> "P002" @@ 7 :> "50" @@ 10 :> "000"
                                  @@ 11 :> "5102" @@ 13 :> "50" @@ 15 :> "7" @@ 20 :> "50")
\* a line without the field separator
LBlank     == <<>>

Lines == {L0000, L0200, LC100Out, LC100In, LC100Bad, LC100Other,
          LC170, LC170Short, LC170Bad, LC190, LC190Short,
          LD100, LD190, LC195, LC197, LE111, LBlank}

BatchLines == {LC100Out, LC100In, LC170, LC190, LD100, LD190}

\* the lines of the files whose rates are examined
RateLines == {L0200, L0200Unlisted, LC100In, LC100Out,
              LC170, LC170Seven, LC170ZeroValue, LC170Neg,
              LC190, LC190ZeroBase, LC190Neg}

XmlVals == ("Valor ICMS XML" :> 15 @@ "Valor IPI XML" :> 0 @@ "Valor Produtos XML" :> 100)
\* the lookup maps of a run: <<xml_map, tipi>>, both empty or both loaded
Maps == {<< <<>>, <<>> >>,
         << ("K1" :> XmlVals @@ "K2" :> XmlVals), ("12345678" :> 10) >>}

-----------------------------------------------------------------------------
(* SpedRecord *)

SpedRecord ==
    [entries |-> <<>>, outputs |-> <<>>, imob_uso |-> <<>>, cte |-> <<>>,
     adjustments |-> <<>>, st_blocks |-> <<>>, difal_blocks |-> <<>>,
     ipi_blocks |-> <<>>, missing_c190 |-> <<>>, parsing_warnings |-> <<>>,
     items |-> <<>>, master_data |-> <<>>, block_flags |-> <<>>]

MasterInit == ("competence" :> "" @@ "company_name" :> "" @@ "company_cnpj" :> ""
               @@ "company_ie" :> "" @@ "company_cod_mun" :> "")

FlagsInit == ("has_c100_saida" :> FALSE @@ "has_st_cfop" :> FALSE
              @@ "has_st_cfop_divergence" :> FALSE @@ "has_block_e200" :> FALSE
              @@ "has_difal_cfop" :> FALSE @@ "has_block_e300" :> FALSE
              @@ "has_block_g110" :> FALSE)

\* the assignments of lines 478-524
LocalsInit ==
    /\ ncm_map = <<>>
    /\ desc_map = <<>>
    /\ current_note = None
    /\ current_note_key = NoneStr
    /\ current_note_is_entry = FALSE
    /\ current_note_has_c190 = FALSE
    /\ current_cte = None
    /\ current_e200 = None
    /\ current_e300 = None
    /\ current_e310 = None
    /\ current_e500 = None
    /\ master = MasterInit
    /\ block_flags = FlagsInit

-----------------------------------------------------------------------------
(* parse_sped_file: opening the file *)

\* open(file_path) succeeds and the locals are initialised
OpenFile ==
    /\ pc = "open"
    /\ pc' = "lines"
    /\ UNCHANGED <<lines, record, parser_locals, main_vars, inputs>>

\* the except clause of line 987
Warn(r) == [r EXCEPT !.parsing_warnings = Append(@, "Erro ao processar")]

\* open(file_path) raises
OpenError ==
    /\ pc = "open"
    /\ record' = Warn(record)
    /\ pc' = "failed"
    /\ UNCHANGED <<lines, parser_locals, main_vars, inputs>>

\* reading f raises while the lines are iterated
FileError ==
    /\ pc = "lines"
    /\ record' = Warn(record)
    /\ pc' = "failed"
    /\ UNCHANGED <<lines, parser_locals, main_vars, inputs>>

-----------------------------------------------------------------------------
(* parse_sped_file: one iteration of the loop over the lines *)

\* the number of lines a file holds at most: MaxLines when parse_sped_file is
\* run on its own, MaxBatchLines when main runs it
LineBound == IF path_i = 0 THEN MaxLines ELSE MaxBatchLines

\* the line is taken from f
Take(parts) ==
    /\ pc = "lines"
    /\ Len(lines) < LineBound
    /\ lines' = Append(lines, parts)
    /\ UNCHANGED <<pc, main_vars, inputs>>

\* if not line or '|' not in line: continue
HasSeparator(parts) == Len(parts) > 1

Handled == {"0000", "0200", "C100", "C170", "C190", "D100", "D190",
            "C195", "C197", "E111", "E115", "E116",
            "E200", "E210", "E300", "E310", "E316", "E500", "E510"}

\* rec.startswith('E2'), rec.startswith('E3') over the registers of the layout
StartsE2(rec) == rec \in {"E200", "E210", "E220", "E230", "E240", "E250"}
StartsE3(rec) == rec \in {"E300", "E310", "E311", "E312", "E313", "E316"}

\* a line without separator, or of a register no branch matches
OnOther(parts) ==
    /\ \/ ~HasSeparator(parts)
       \/ /\ Rec(parts) \notin Handled
          /\ ~StartsE2(Rec(parts)) /\ ~StartsE3(Rec(parts)) /\ Rec(parts) # "G110"
    /\ Take(parts)
    /\ UNCHANGED <<record, parser_locals>>

\* competence of an 8-digit date: date_source[2:4] + '/' + date_source[4:8]
CompetenceOf == ("01012024" :> "01/2024" @@ "31012024" :> "01/2024"
                 @@ "01022024" :> "02/2024" @@ "29022024" :> "02/2024")

\* len(d) == 8 and d.isdigit()
IsDate8(d) == d \in DOMAIN CompetenceOf

\* DateSource that prefers the period-end date
DateSource_EndFirst(dt_ini, dt_fin) ==
    IF IsDate8(dt_fin) THEN dt_fin ELSE IF IsDate8(dt_ini) THEN dt_ini ELSE ""

\* date_source: dt_ini if valid, else dt_fin if valid, else ''
DateSource(dt_ini, dt_fin) ==
    IF IsDate8(dt_ini) THEN dt_ini ELSE IF IsDate8(dt_fin) THEN dt_fin ELSE ""

On0000(parts) ==
    /\ HasSeparator(parts) /\ Rec(parts) = "0000"
    /\ Take(parts)
    /\ master' =
         IF Len(parts) > 8
         THEN LET dt_ini == IF Len(parts) > 3 THEN parts[4] ELSE ""
                  dt_fin == IF Len(parts) > 4 THEN parts[5] ELSE ""
                  date_source == DateSource(dt_ini, dt_fin)
              IN  [master EXCEPT
                     !["competence"] = IF date_source # "" THEN CompetenceOf[date_source] ELSE @,
                     !["company_name"] = Field(parts, 6),
                     !["company_cnpj"] = Field(parts, 7),
                     !["company_ie"] = Field(parts, 9),
                     !["company_cod_mun"] = Field(parts, 10)]
         ELSE master
    /\ UNCHANGED <<record, ncm_map, desc_map, current_note, current_note_key,
                   current_note_is_entry, current_note_has_c190, current_cte,
                   block_locals, block_flags>>

\* CatalogPut that stores a blank value too
CatalogPut_Always(map, cod_item, val) ==
    IF cod_item # "" THEN Update(map, cod_item :> val) ELSE map

\* if cod_item: if val: map[cod_item] = val
CatalogPut(map, cod_item, val) ==
    IF cod_item # "" /\ val # "" THEN Update(map, cod_item :> val) ELSE map

On0200(parts) ==
    /\ HasSeparator(parts) /\ Rec(parts) = "0200"
    /\ Take(parts)
    /\ LET cod_item == Field(parts, 2)
           descr_item == Field(parts, 3)
           ncm == Field(parts, 8)
       IN  /\ ncm_map' = CatalogPut(ncm_map, cod_item, ncm)
           /\ desc_map' = CatalogPut(desc_map, cod_item, descr_item)
    /\ UNCHANGED <<record, current_note, current_note_key, current_note_is_entry,
                   current_note_has_c190, current_cte, block_locals, master,
                   block_flags>>

-----------------------------------------------------------------------------
(* C100: document header *)

\* NeedsFlush without the test of the direction of the note
NeedsFlush_AnyDirection ==
    /\ current_note # None
    /\ ~current_note_has_c190

\* a previously open saida note that never received a C190
NeedsFlush ==
    /\ current_note # None
    /\ ~current_note_is_entry
    /\ ~current_note_has_c190

\* record.missing_c190.append(current_note.copy()) when the note needs it
Flush(r) == IF NeedsFlush THEN [r EXCEPT !.missing_c190 = Append(@, current_note)]
            ELSE r

\* CloseNote with the reset left out
CloseNote_Kept == current_note

\* current_note = None (the reset of line 617)
CloseNote == None

\* Tracked that also wants every numeric field of the header to be a number
Tracked_NumbersOnly(parts) ==
    /\ Len(parts) > 2
    /\ strip(parts[3]) \in {"0", "1"}
    /\ \A i \in {12, 21, 22, 25} :
          Len(parts) > i => strip(parts[i + 1]) \in DOMAIN FloatOf \cup {""}

\* only notes with ind_oper 0 (entrada) or 1 (saida) are tracked
Tracked(parts) == Len(parts) > 2 /\ strip(parts[3]) \in {"0", "1"}

\* the dict built from a header line of file path under master data mstr
C100NoteOf(path, mstr, parts) ==
    ("Arquivo" :> path
     @@ "Competencia" :> mstr["competence"]
     @@ "CNPJ" :> mstr["company_cnpj"]
     @@ "Razao Social" :> mstr["company_name"]
     @@ "UF" :> mstr["company_cod_mun"]
     @@ "Serie da nota" :> Field(parts, 7)
     @@ "Numero da nota" :> Field(parts, 8)
     @@ "Chave" :> Field(parts, 9)
     @@ "Data de emissao" :> Field(parts, 10)
     @@ "Valor Total Nota" :> NumAlt(parts, 12, 11)
     @@ "BC ICMS Nota" :> NumAlt(parts, 21, 20)
     @@ "Valor ICMS Nota" :> NumAlt(parts, 22, 21)
     @@ "Valor IPI Nota" :> NumAlt(parts, 25, 24)
     @@ "Tipo Nota" :> IF strip(parts[3]) = "0" THEN "Entrada" ELSE "Saida")

\* the dict assigned to current_note
C100Note(parts) == C100NoteOf(file_path, master, parts)

\* HeaderFlush done after the new note is opened: the note that is tested
\* is the one of this header
HeaderFlush_AfterOpen(r, parts) ==
    IF Tracked(parts) /\ strip(parts[3]) # "0"
    THEN [r EXCEPT !.missing_c190 = Append(@, C100Note(parts))]
    ELSE r

\* the flush of the previous note, the first statement of the branch
HeaderFlush(r, parts) == Flush(r)

OnC100(parts) ==
    /\ HasSeparator(parts) /\ Rec(parts) = "C100"
    /\ Take(parts)
    /\ record' = HeaderFlush(record, parts)
    /\ current_note_has_c190' = FALSE
    /\ IF Tracked(parts)
       THEN /\ current_note_is_entry' = (strip(parts[3]) = "0")
            /\ current_note' = C100Note(parts)
            /\ current_note_key' = Field(parts, 9)
            /\ block_flags' = IF strip(parts[3]) # "0"
                              THEN [block_flags EXCEPT !["has_c100_saida"] = TRUE]
                              ELSE block_flags
       ELSE /\ current_note' = CloseNote
            /\ current_note_key' = NoneStr
            /\ current_note_is_entry' = FALSE
            /\ UNCHANGED block_flags
    /\ UNCHANGED <<ncm_map, desc_map, current_cte, block_locals, master>>

-----------------------------------------------------------------------------
(* C170: item detail *)

\* the field count under which an item line is skipped
MinC170Parts == 25

\* TooShort with the gate switched off: no item line is skipped
TooShort_Never(parts) == FALSE

\* if len(parts) < 25: continue
TooShort(parts) == Len(parts) < MinC170Parts

\* EffAliq without the conversion to a percentage
EffAliq_NoPercent(vl, base) == IF base > 0 THEN vl \div base ELSE 0

\* EffAliq that gives the tax amount when there is no base
EffAliq_TaxWhenNoBase(vl, base) == IF base > 0 THEN (vl * 100) \div base ELSE vl

\* (vl / base) * 100.0 when base > 0, else 0.0
EffAliq(vl, base) == IF base > 0 THEN (vl * 100) \div base ELSE 0

\* dict.get(key, '')
Get(d, k) == IF k \in DOMAIN d THEN d[k] ELSE ""

\* IpiStatus that looks at the table before it looks at the declared rate
IpiStatus_TableFirst(aliq_ipi_item, ncm) ==
    IF tipi = <<>> THEN <<"TIPI nao carregada">>
    ELSE IF aliq_ipi_item = 0 THEN <<"Conforme">>
    ELSE IF ncm = "" THEN <<"NCM nao encontrado">>
    ELSE IF ncm \notin DOMAIN tipi THEN <<"NCM nao encontrado na TIPI">>
    ELSE IF aliq_ipi_item = tipi[ncm] THEN <<"Conforme">>
    ELSE <<"Divergente (TIPI)", tipi[ncm]>>

\* the TIPI conformity of an item; abs(a - b) < 0.001 is a = b on the whole
\* rates of the model, and the message carries the expected rate
IpiStatus(aliq_ipi_item, ncm) ==
    IF aliq_ipi_item = 0 THEN <<"Conforme">>
    ELSE IF tipi = <<>> THEN <<"TIPI nao carregada">>
    ELSE IF ncm = "" THEN <<"NCM nao encontrado">>
    ELSE IF ncm \notin DOMAIN tipi THEN <<"NCM nao encontrado na TIPI">>
    ELSE IF aliq_ipi_item = tipi[ncm] THEN <<"Conforme">>
    ELSE <<"Divergente (TIPI)", tipi[ncm]>>

\* the item row of an item line under the open note `note` and the catalog
\* ncms, descs
ItemRecOf(note, ncms, descs, parts) ==
    LET cod_item == strip(parts[4])
        val_item == Num(parts, 7)
        vl_icms_item == Num(parts, 15)
        aliq_ipi_item == Num(parts, 23)
        ncm == Get(ncms, cod_item)
    IN  Update(note,
           "Num. Item" :> strip(parts[3])
           @@ "Cod. Item" :> cod_item
           @@ "Descricao do Produto" :> Get(descs, cod_item)
           @@ "CFOP" :> Field(parts, 11)
           @@ "CST ICMS" :> Field(parts, 10)
           @@ "CST IPI" :> Field(parts, 20)
           @@ "Valor Total Item" :> val_item
           @@ "BC ICMS Item" :> Num(parts, 13)
           @@ "Aliquota ICMS Item (%)" :> Num(parts, 14)
           @@ "Valor ICMS Item" :> vl_icms_item
           @@ "Aliq. Efetiva (%)" :> EffAliq(vl_icms_item, val_item)
           @@ "Aliquota IPI Item (%)" :> aliq_ipi_item
           @@ "Valor IPI Item" :> Num(parts, 24)
           @@ "NCM Item" :> ncm
           @@ "Conformidade IPI x TIPI" :> IpiStatus(aliq_ipi_item, ncm))

\* ItemRec that reads the competence and the company from the master data
\* of the moment the item line is read
ItemRec_MasterNow(parts) ==
    Update(ItemRecOf(current_note, ncm_map, desc_map, parts),
           "Competencia" :> master["competence"]
           @@ "CNPJ" :> master["company_cnpj"]
           @@ "Razao Social" :> master["company_name"]
           @@ "UF" :> master["company_cod_mun"])

\* item_rec = current_note.copy(); item_rec.update({...})
ItemRec(parts) == ItemRecOf(current_note, ncm_map, desc_map, parts)

ImobUsoCfops == {"1556", "1407", "1551", "1406", "2551", "2556", "2406", "2407"}

\* v > 0.001 over the whole amounts of the model
Exceeds001(v) == v * 1000 > 1

\* UsoRec that looks at the ICMS amount only
UsoRec_IcmsOnly(item_rec) ==
    Update(item_rec,
           "Situacao Credito" :>
               IF Exceeds001(item_rec["Valor ICMS Item"])
               THEN "Inconsistente" ELSE "Consistente")

\* uso_rec = item_rec.copy() with the credit situation
UsoRec(item_rec) ==
    Update(item_rec,
           "Situacao Credito" :>
               IF Exceeds001(item_rec["Valor ICMS Item"])
                  \/ Exceeds001(item_rec["Valor IPI Item"])
               THEN "Inconsistente" ELSE "Consistente")

\* AddItem with the entries append outside the test of the direction
AddItem_AlwaysEntry(r, item_rec) ==
    [r EXCEPT
       !.items = Append(@, item_rec),
       !.entries = Append(@, item_rec),
       !.imob_uso = IF current_note_is_entry
                       /\ replace_dots(item_rec["CFOP"]) \in ImobUsoCfops
                    THEN Append(@, UsoRec(item_rec)) ELSE @]

\* the appends of lines 737-749
AddItem(r, item_rec) ==
    [r EXCEPT
       !.items = Append(@, item_rec),
       !.entries = IF current_note_is_entry THEN Append(@, item_rec) ELSE @,
       !.imob_uso = IF current_note_is_entry
                       /\ replace_dots(item_rec["CFOP"]) \in ImobUsoCfops
                    THEN Append(@, UsoRec(item_rec)) ELSE @]

OnC170(parts) ==
    /\ HasSeparator(parts) /\ Rec(parts) = "C170"
    /\ Take(parts)
    /\ record' = IF current_note # None /\ ~TooShort(parts)
                 THEN AddItem(record, ItemRec(parts))
                 ELSE record
    /\ UNCHANGED parser_locals

-----------------------------------------------------------------------------
(* C190: summary for outputs *)

\* SummaryApplies without the test of the direction of the note
SummaryApplies_AnyDirection == current_note # None

\* if rec == 'C190' and current_note is not None and not current_note_is_entry
SummaryApplies == current_note # None /\ ~current_note_is_entry

\* the summary row of a summary line under the open note `note`
OutRecOf(note, parts) ==
    LET bc_icms == Num(parts, 6)
        vl_icms == Num(parts, 7)
    IN  Update(note,
           "CST ICMS" :> Field(parts, 2)
           @@ "CFOP" :> Field(parts, 3)
           @@ "Aliquota ICMS" :> Num(parts, 4)
           @@ "Valor Operacao" :> Num(parts, 5)
           @@ "BC ICMS" :> bc_icms
           @@ "Valor ICMS" :> vl_icms
           @@ "Aliq. Efetiva (%)" :> EffAliq(vl_icms, bc_icms)
           @@ "Valor IPI (C190)" :> Num(parts, 11))

\* out_rec = current_note.copy(); out_rec.update({...})
OutRec(parts) == OutRecOf(current_note, parts)

StCfops == {"5401", "5403", "5405", "6401", "6403"}
StDivergenceCfops == {"5401", "5403", "6403"}
DifalCfops == {"6107", "6108"}

\* FlagsOfCfop that compares the code as written
FlagsOfCfop_Raw(flags, cfop) ==
    [flags EXCEPT
       !["has_st_cfop"] = @ \/ cfop \in StCfops,
       !["has_st_cfop_divergence"] = @ \/ cfop \in StDivergenceCfops,
       !["has_difal_cfop"] = @ \/ cfop \in DifalCfops]

\* the ST/DIFAL flags set from the CFOP of a summary
FlagsOfCfop(flags, cfop) ==
    [flags EXCEPT
       !["has_st_cfop"] = @ \/ replace_dots(cfop) \in StCfops,
       !["has_st_cfop_divergence"] = @ \/ replace_dots(cfop) \in StDivergenceCfops,
       !["has_difal_cfop"] = @ \/ replace_dots(cfop) \in DifalCfops]

OnC190(parts) ==
    /\ HasSeparator(parts) /\ Rec(parts) = "C190"
    /\ Take(parts)
    /\ IF SummaryApplies
       THEN /\ current_note_has_c190' = TRUE
            /\ record' = [record EXCEPT !.outputs = Append(@, OutRec(parts))]
            /\ block_flags' = FlagsOfCfop(block_flags, Field(parts, 3))
       ELSE UNCHANGED <<current_note_has_c190, record, block_flags>>
    /\ UNCHANGED <<ncm_map, desc_map, current_note, current_note_key,
                   current_note_is_entry, current_cte, block_locals, master>>

-----------------------------------------------------------------------------
(* D100/D190: CT-e *)

\* the dict assigned to current_cte
D100Cte(parts) ==
    ("Arquivo" :> file_path
     @@ "Competencia" :> master["competence"]
     @@ "Chave CT-e" :> Field(parts, 10)
     @@ "Serie CT-e" :> Field(parts, 7)
     @@ "Numero CT-e" :> Field(parts, 9)
     @@ "Data de emissao" :> Field(parts, 11)
     @@ "Valor Total CT-e" :> Num(parts, 15)
     @@ "BC ICMS CT-e" :> Num(parts, 18)
     @@ "Valor ICMS CT-e" :> Num(parts, 20))

\* NoteAfterFreight of a branch that closes the note as the C100 branch does
NoteAfterFreight_Closed == None

\* the D100 branch assigns current_cte only: the note stays as it is
NoteAfterFreight == current_note

OnD100(parts) ==
    /\ HasSeparator(parts) /\ Rec(parts) = "D100"
    /\ Take(parts)
    /\ current_cte' = D100Cte(parts)
    /\ current_note' = NoteAfterFreight
    /\ UNCHANGED <<record, ncm_map, desc_map, current_note_key,
                   current_note_is_entry, current_note_has_c190, block_locals,
                   master, block_flags>>

\* cte_rec = current_cte.copy(); cte_rec.update({...})
CteRec(parts) ==
    LET vl_opr == Num(parts, 5)
        vl_icms == Num(parts, 7)
    IN  Update(current_cte,
           "CST CT-e" :> Field(parts, 2)
           @@ "CFOP CT-e" :> Field(parts, 3)
           @@ "Aliquota ICMS CT-e" :> Num(parts, 4)
           @@ "Valor Operacao CT-e" :> vl_opr
           @@ "BC ICMS CT-e (D190)" :> Num(parts, 6)
           @@ "Valor ICMS CT-e (D190)" :> vl_icms
           @@ "Aliq. Efetiva CT-e (%)" :> EffAliq(vl_icms, vl_opr)
           @@ "Valor IPI CT-e" :> 0
           @@ "NCM Item" :> "Nao se Aplica"
           @@ "Descricao do Produto" :> "Servico de Transporte")

OnD190(parts) ==
    /\ HasSeparator(parts) /\ Rec(parts) = "D190"
    /\ Take(parts)
    /\ record' = IF current_cte # None
                 THEN [record EXCEPT !.cte = Append(@, CteRec(parts))]
                 ELSE record
    /\ UNCHANGED parser_locals

-----------------------------------------------------------------------------
(* C195/C197/E111: observations and adjustments *)

\* OrEmpty that drops the reference
OrEmpty_Dropped(note_id) == ""

\* note_id or ''
OrEmpty(note_id) == IF note_id = NoneStr THEN "" ELSE note_id

\* the dict appended by add_adjustment
Adjustment(reg_type, code, descr, value, note_id) ==
    ("Arquivo" :> file_path
     @@ "Competencia" :> master["competence"]
     @@ "Tipo Registro" :> reg_type
     @@ "Codigo Ajuste" :> code
     @@ "Descricao Ajuste" :> descr
     @@ "Valor Ajuste" :> value
     @@ "Nota" :> OrEmpty(note_id))

add_adjustment(r, reg_type, code, descr, value, note_id) ==
    [r EXCEPT !.adjustments = Append(@, Adjustment(reg_type, code, descr, value, note_id))]

OnC195(parts) ==
    /\ HasSeparator(parts) /\ Rec(parts) = "C195"
    /\ Take(parts)
    /\ record' = IF current_note # None /\ Field(parts, 3) # ""
                 THEN add_adjustment(record, "C195", "", Field(parts, 3), 0,
                                     current_note_key)
                 ELSE record
    /\ UNCHANGED parser_locals

\* the last value > 0 among parts[4:], else 0.0
AdjValue(parts) ==
    LET pos == {i \in 5..Len(parts) : parse_float_br(parts[i]) > 0}
    IN  IF pos = {} THEN 0
        ELSE parse_float_br(parts[CHOOSE i \in pos : \A j \in pos : j <= i])

OnC197(parts) ==
    /\ HasSeparator(parts) /\ Rec(parts) = "C197"
    /\ Take(parts)
    /\ record' = IF current_note # None
                 THEN add_adjustment(record, "C197", Field(parts, 2), Field(parts, 3),
                                     AdjValue(parts), current_note_key)
                 ELSE record
    /\ UNCHANGED parser_locals

\* PeriodLevelApplies with the guard of the per-document branches
PeriodLevelApplies_NeedsNote == current_note # None

\* the E111, E115 and E116 branches test the register only
PeriodLevelApplies == TRUE

OnE111(parts) ==
    /\ HasSeparator(parts) /\ Rec(parts) = "E111"
    /\ Take(parts)
    /\ record' = IF PeriodLevelApplies
                 THEN add_adjustment(record, "E111", Field(parts, 2), Field(parts, 3),
                                     Num(parts, 4), NoneStr)
                 ELSE record
    /\ UNCHANGED parser_locals

OnE115(parts) ==
    /\ HasSeparator(parts) /\ Rec(parts) = "E115"
    /\ Take(parts)
    /\ record' = IF PeriodLevelApplies
                 THEN add_adjustment(record, "E115", Field(parts, 2), Field(parts, 4),
                                     Num(parts, 3), NoneStr)
                 ELSE record
    /\ UNCHANGED parser_locals

\* f"{cod_or} {cod_rec} {txt}".strip() over the texts of the model
Join3 == (<<"OR1", "REC1", "">> :> "OR1 REC1" @@ <<"OR1", "", "">> :> "OR1"
          @@ <<"", "", "">> :> "")

OnE116(parts) ==
    /\ HasSeparator(parts) /\ Rec(parts) = "E116"
    /\ Take(parts)
    /\ LET cod_or == Field(parts, 2)
           cod_rec == Field(parts, 5)
           txt == Field(parts, 9)
       IN  record' = IF PeriodLevelApplies
                     THEN add_adjustment(record, "E116",
                                         IF cod_rec # "" THEN cod_rec ELSE cod_or,
                                         Join3[<<cod_or, cod_rec, txt>>],
                                         Num(parts, 3), NoneStr)
                     ELSE record
    /\ UNCHANGED parser_locals

-----------------------------------------------------------------------------
(* E200/E210, E300/E310/E316, E500/E510: period blocks *)

\* the dict assigned to current_e200 and to current_e300
PeriodBlock(parts) ==
    ("Arquivo" :> file_path
     @@ "Competencia" :> master["competence"]
     @@ "UF" :> Field(parts, 2)
     @@ "Data Inicio" :> Field(parts, 3)
     @@ "Data Fim" :> Field(parts, 4)
     @@ "Ind Mov" :> "")

\* Trackers that assign the result of each test to its flag
Trackers_Assigned(flags, rec) ==
    [flags EXCEPT !["has_block_e200"] = StartsE2(rec),
                  !["has_block_e300"] = StartsE3(rec),
                  !["has_block_g110"] = rec = "G110"]

\* the block presence trackers of lines 885-890
Trackers(flags, rec) ==
    [flags EXCEPT !["has_block_e200"] = @ \/ StartsE2(rec),
                  !["has_block_e300"] = @ \/ StartsE3(rec),
                  !["has_block_g110"] = @ \/ rec = "G110"]

\* a line of a register that only the trackers of lines 885-890 look at
OnTracked(parts) ==
    /\ HasSeparator(parts)
    /\ Rec(parts) \notin Handled
    /\ StartsE2(Rec(parts)) \/ StartsE3(Rec(parts)) \/ Rec(parts) = "G110"
    /\ Take(parts)
    /\ block_flags' = Trackers(block_flags, Rec(parts))
    /\ UNCHANGED <<record, ncm_map, desc_map, current_note, current_note_key,
                   current_note_is_entry, current_note_has_c190, current_cte,
                   block_locals, master>>

\* Opened that wants no parent: a child record acts on any context value
Opened_Always(ctx) == TRUE

\* `current_eNNN is not None`
Opened(ctx) == ctx # None

\* PassesGate that lets every parent header through
PassesGate_Always(parts) == TRUE

\* if len(parts) > 4: the field-count gate of the E200 and E300 branches
PassesGate(parts) == Len(parts) > 4

OnE200(parts) ==
    /\ HasSeparator(parts) /\ Rec(parts) = "E200"
    /\ Take(parts)
    /\ block_flags' = Trackers(block_flags, "E200")
    /\ current_e200' = IF PassesGate(parts) THEN PeriodBlock(parts) ELSE current_e200
    /\ UNCHANGED <<record, ncm_map, desc_map, current_note, current_note_key,
                   current_note_is_entry, current_note_has_c190, current_cte,
                   current_e300, current_e310, current_e500, master>>

OnE210(parts) ==
    /\ HasSeparator(parts) /\ Rec(parts) = "E210"
    /\ Take(parts)
    /\ block_flags' = Trackers(block_flags, "E210")
    /\ IF Opened(current_e200)
       THEN /\ current_e200' = Update(current_e200, "Ind Mov" :> Field(parts, 2))
            /\ record' = [record EXCEPT !.st_blocks = Append(@, current_e200')]
       ELSE UNCHANGED <<current_e200, record>>
    /\ UNCHANGED <<ncm_map, desc_map, current_note, current_note_key,
                   current_note_is_entry, current_note_has_c190, current_cte,
                   current_e300, current_e310, current_e500, master>>

OnE300(parts) ==
    /\ HasSeparator(parts) /\ Rec(parts) = "E300"
    /\ Take(parts)
    /\ block_flags' = Trackers(block_flags, "E300")
    /\ IF PassesGate(parts)
       THEN current_e300' = PeriodBlock(parts) /\ current_e310' = None
       ELSE UNCHANGED <<current_e300, current_e310>>
    /\ UNCHANGED <<record, ncm_map, desc_map, current_note, current_note_key,
                   current_note_is_entry, current_note_has_c190, current_cte,
                   current_e200, current_e500, master>>

OnE310(parts) ==
    /\ HasSeparator(parts) /\ Rec(parts) = "E310"
    /\ Take(parts)
    /\ block_flags' = Trackers(block_flags, "E310")
    /\ IF Opened(current_e300)
       THEN /\ current_e300' = Update(current_e300, "Ind Mov" :> Field(parts, 2))
            /\ current_e310' = Update(current_e300', "Saldo Apurado" :> Num(parts, 9))
       ELSE UNCHANGED <<current_e300, current_e310>>
    /\ UNCHANGED <<record, ncm_map, desc_map, current_note, current_note_key,
                   current_note_is_entry, current_note_has_c190, current_cte,
                   current_e200, current_e500, master>>

OnE316(parts) ==
    /\ HasSeparator(parts) /\ Rec(parts) = "E316"
    /\ Take(parts)
    /\ block_flags' = Trackers(block_flags, "E316")
    /\ IF Opened(current_e310)
       THEN /\ current_e310' = Update(current_e310,
                                      "Codigo Receita" :> Field(parts, 2)
                                      @@ "Valor Recolhimento" :> Num(parts, 3)
                                      @@ "Data Recolhimento" :> Field(parts, 4))
            /\ record' = [record EXCEPT !.difal_blocks = Append(@, current_e310')]
       ELSE UNCHANGED <<current_e310, record>>
    /\ UNCHANGED <<ncm_map, desc_map, current_note, current_note_key,
                   current_note_is_entry, current_note_has_c190, current_cte,
                   current_e200, current_e300, current_e500, master>>

\* the dict assigned to current_e500
E500Block(parts) ==
    ("Arquivo" :> file_path
     @@ "Competencia" :> master["competence"]
     @@ "Ind Apur" :> Field(parts, 2)
     @@ "Data Inicio" :> Field(parts, 3)
     @@ "Data Fim" :> Field(parts, 4))

OnE500(parts) ==
    /\ HasSeparator(parts) /\ Rec(parts) = "E500"
    /\ Take(parts)
    /\ current_e500' = E500Block(parts)
    /\ UNCHANGED <<record, ncm_map, desc_map, current_note, current_note_key,
                   current_note_is_entry, current_note_has_c190, current_cte,
                   current_e200, current_e300, current_e310, master, block_flags>>

\* rec_e500 = current_e500.copy(); rec_e500.update({...})
E510Rec(parts) ==
    Update(current_e500,
           "CFOP" :> Field(parts, 2)
           @@ "CST IPI" :> Field(parts, 3)
           @@ "Valor Contabil IPI" :> Num(parts, 4)
           @@ "Base IPI" :> Num(parts, 5)
           @@ "Valor IPI" :> Num(parts, 6))

OnE510(parts) ==
    /\ HasSeparator(parts) /\ Rec(parts) = "E510"
    /\ Take(parts)
    /\ record' = IF Opened(current_e500)
                 THEN [record EXCEPT !.ipi_blocks = Append(@, E510Rec(parts))]
                 ELSE record
    /\ UNCHANGED parser_locals

-----------------------------------------------------------------------------
(* parse_sped_file: after the loop *)

\* AttachXml without the test `key in xml_map`: a row of a key the map lacks
\* gets the columns with the default 0.0
AttachXml_AnyKey(row) ==
    IF xml_map # <<>> /\ row["Chave"] # ""
    THEN LET xml_vals == IF row["Chave"] \in DOMAIN xml_map
                         THEN xml_map[row["Chave"]]
                         ELSE ("Valor ICMS XML" :> 0 @@ "Valor IPI XML" :> 0
                               @@ "Valor Produtos XML" :> 0)
         IN  Update(row, "Valor ICMS XML" :> xml_vals["Valor ICMS XML"]
                         @@ "Valor IPI XML" :> xml_vals["Valor IPI XML"]
                         @@ "Valor Produtos XML" :> xml_vals["Valor Produtos XML"])
    ELSE row

\* the XML columns attached to a row whose key is in xml_map
AttachXml(row) ==
    IF xml_map # <<>> /\ row["Chave"] # "" /\ row["Chave"] \in DOMAIN xml_map
    THEN Update(row, "Valor ICMS XML" :> xml_map[row["Chave"]]["Valor ICMS XML"]
                     @@ "Valor IPI XML" :> xml_map[row["Chave"]]["Valor IPI XML"]
                     @@ "Valor Produtos XML" :> xml_map[row["Chave"]]["Valor Produtos XML"])
    ELSE row

\* AttachAll without the loop over record.outputs
AttachAll_EntriesOnly(r) ==
    [r EXCEPT
       !.entries = [i \in DOMAIN @ |-> AttachXml(@[i])],
       !.items = [i \in DOMAIN @ |-> IF @[i]["Tipo Nota"] = "Entrada"
                                     THEN AttachXml(@[i]) ELSE @[i]]]

\* The rows of record.entries are the very dicts appended to record.items for
\* entrada notes (one object in two lists), so the columns attached through
\* record.entries show in record.items too.
AttachAll(r) ==
    [r EXCEPT
       !.entries = [i \in DOMAIN @ |-> AttachXml(@[i])],
       !.items = [i \in DOMAIN @ |-> IF @[i]["Tipo Nota"] = "Entrada"
                                     THEN AttachXml(@[i]) ELSE @[i]],
       !.outputs = [i \in DOMAIN @ |-> AttachXml(@[i])]]

\* FlushAtEnd with the flush after the loop left out
FlushAtEnd_Skipped(r) == r

\* after processing all lines, flush pending missing C190 note
FlushAtEnd(r) == Flush(r)

\* f is exhausted: lines 963-989
EndOfFile ==
    /\ pc = "lines"
    /\ record' = AttachAll([FlushAtEnd(record) EXCEPT !.master_data = master,
                                                 !.block_flags = block_flags])
    /\ pc' = "done"
    /\ UNCHANGED <<lines, parser_locals, main_vars, inputs>>

-----------------------------------------------------------------------------
(* aggregate_records: which sheets are built, and what is returned *)

\* the DataFrame built from the rows of collection f of all records is not empty
NotEmpty(recs, f) == \E i \in DOMAIN recs : recs[i][f] # <<>>

\* some row of collection f of some record has its cleaned CFOP in codes
SomeCfop(recs, f, codes) ==
    \E i \in DOMAIN recs : \E j \in DOMAIN recs[i][f] :
        replace_dots(recs[i][f][j]["CFOP"]) \in codes

revenue_cfops == {"5101", "5102", "5403", "5405", "6101", "6102", "6403"}
\* the explicit codes, and the codes that start with 59 or 69
other_cfops == {"5949", "6949", "6910", "5910"} \cup {"5901", "5902", "6901", "6902"}
cost_cfops == {"2102", "2101", "2403", "2405", "1102", "1101", "1403", "1405"}
expense_cfops == {"2551", "1551", "1933"}

\* df_dre_list is not empty
HasDre(recs) ==
    \/ SomeCfop(recs, "outputs", revenue_cfops)
    \/ SomeCfop(recs, "outputs", other_cfops)
    \/ SomeCfop(recs, "entries", cost_cfops)
    \/ SomeCfop(recs, "entries", expense_cfops)

\* [row for rec in records for row in rec.<f>]
Rows(recs, f) ==
    LET flat[n \in 0..Len(recs)] ==
            IF n = 0 THEN <<>> ELSE flat[n - 1] \o recs[n][f]
    IN  flat[Len(recs)]

\* df.columns: the columns of the DataFrame built from rows
Columns(rows) == UNION {DOMAIN rows[i] : i \in DOMAIN rows}

\* the columns cols of a row
Restrict(row, cols) == [c \in cols |-> row[c]]

\* the sum of column c over the rows at the positions idx
SumCol(rows, idx, c) ==
    LET acc[n \in 0..Len(rows)] ==
            IF n = 0 THEN 0
            ELSE acc[n - 1] + (IF n \in idx THEN rows[n][c] ELSE 0)
    IN  acc[Len(rows)]

\* GroupBy that keeps the amounts of each row instead of summing the group
GroupBy_Unsummed(rows, by, sums) ==
    {Restrict(rows[i], by) @@ [c \in sums |-> rows[i][c]] : i \in DOMAIN rows}

\* df.groupby(by).agg({c: 'sum' for c in sums}).reset_index(): one row for
\* each combination of values of the columns by
GroupBy(rows, by, sums) ==
    {Restrict(rows[i], by)
       @@ [c \in sums |->
             SumCol(rows, {j \in DOMAIN rows :
                             Restrict(rows[j], by) = Restrict(rows[i], by)}, c)]
     : i \in DOMAIN rows}

\* df.rename(columns=ren) of one row
Renamed(row, ren) ==
    LET new(c) == IF c \in DOMAIN ren THEN ren[c] ELSE c
    IN  [n \in {new(c) : c \in DOMAIN row} |->
            row[CHOOSE c \in DOMAIN row : new(c) = n]]

numeric_cols_items == {"Valor Total Item", "BC ICMS Item", "Valor ICMS Item",
                       "Valor IPI Item"}

rename_map_items == ("Valor Total Item" :> "Valor Contabil" @@ "BC ICMS Item" :> "BC ICMS"
                     @@ "Valor ICMS Item" :> "ICMS" @@ "Valor IPI Item" :> "IPI")

\* a summary of the items is built when the items are not empty and have some
\* of the wanted grouping columns (if not df_items.empty: ... if cols:)
ItemSummaryBuilt(rows, wanted) == rows # <<>> /\ wanted \cap Columns(rows) # {}

\* the summary: the items grouped by the wanted columns they have, the numeric
\* columns summed and renamed
ItemSummary(rows, wanted) ==
    {Renamed(g, rename_map_items) :
       g \in GroupBy(rows, wanted \cap Columns(rows),
                     numeric_cols_items \cap Columns(rows))}

\* UfCfopCols that wants the state column among the columns of the items
UfCfopCols_NeedsState(rows) ==
    IF "UF" \in Columns(rows)
    THEN {"Competencia", "CNPJ", "Razao Social", "UF", "CFOP"} ELSE {}

\* for c in ['Competencia', 'CNPJ', 'Razao Social', 'UF', 'CFOP'] (line 1092)
UfCfopCols(rows) == {"Competencia", "CNPJ", "Razao Social", "UF", "CFOP"}

\* sheets['Resumo UF-CFOP'] is built (lines 1090-1099)
HasResumoUfCfop(recs) ==
    ItemSummaryBuilt(Rows(recs, "items"), UfCfopCols(Rows(recs, "items")))

\* the grouping columns wanted by the other summaries of the items
\* (lines 1037, 1057, 1075, 1102)
ItemWanted(n) ==
    CASE n = "Resumo Itens por NCM-CFOP" ->
           {"Tipo Nota", "Competencia", "CNPJ", "Razao Social", "NCM Item", "CFOP"}
      [] n = "Resumo CFOP-NCM-CST" ->
           {"Tipo Nota", "Competencia", "CNPJ", "Razao Social", "CFOP", "NCM Item",
            "CST ICMS"}
      [] n = "Ranking Produtos" ->
           {"Competencia", "CNPJ", "Razao Social", "Descricao do Produto", "NCM Item",
            "CFOP"}
      [] n = "Resumo NCM" -> {"Competencia", "CNPJ", "Razao Social", "NCM Item"}

\* sheets['Resumo UF-CFOP']
ResumoUfCfop(recs) == ItemSummary(Rows(recs, "items"), UfCfopCols(Rows(recs, "items")))

\* the keys of the dict `sheets` when the end of the function is reached
SheetNames(recs) ==
    (IF NotEmpty(recs, "items")
     THEN {"Detalhes Itens", "Resumo Itens por NCM-CFOP", "Resumo CFOP-NCM-CST",
           "Ranking Produtos", "Resumo NCM"} ELSE {})
    \cup (IF HasResumoUfCfop(recs) THEN {"Resumo UF-CFOP"} ELSE {})
    \cup (IF NotEmpty(recs, "entries")
          THEN {"Detalhes Entradas", "Resumo Entradas por CFOP",
                "Resumo Entradas por NCM-CFOP"} ELSE {})
    \cup (IF NotEmpty(recs, "outputs")
          THEN {"Detalhes Saidas", "Resumo Saidas por CFOP-CST"} ELSE {})
    \cup (IF NotEmpty(recs, "imob_uso") THEN {"Entradas Imob_UsoConsumo"} ELSE {})
    \cup (IF NotEmpty(recs, "cte")
          THEN {"Detalhes CT-e", "Resumo CT-e por CFOP-CST"} ELSE {})
    \cup (IF NotEmpty(recs, "adjustments") THEN {"Ajustes"} ELSE {})
    \cup (IF NotEmpty(recs, "missing_c190") THEN {"Notas Saida sem C190"} ELSE {})
    \cup (IF NotEmpty(recs, "master_data") THEN {"Dados Mestres"} ELSE {})
    \cup (IF NotEmpty(recs, "block_flags") THEN {"Presenca Blocos"} ELSE {})
    \cup (IF NotEmpty(recs, "st_blocks") THEN {"Resumo E200_ICMS_ST"} ELSE {})
    \cup (IF NotEmpty(recs, "difal_blocks") THEN {"Resumo E300_DIFAL"} ELSE {})
    \cup (IF NotEmpty(recs, "ipi_blocks") THEN {"Resumo E500_IPI"} ELSE {})
    \cup (IF HasDre(recs) THEN {"DRE Fiscal", "Indicadores Fiscais"} ELSE {})
    \cup (IF NotEmpty(recs, "entries") \/ NotEmpty(recs, "outputs")
          THEN {"Saldo Impostos"} ELSE {})

\* the sum of column c over a set of rows
RECURSIVE SumSet(_, _)
SumSet(S, c) ==
    IF S = {} THEN 0
    ELSE LET r == CHOOSE x \in S : TRUE IN r[c] + SumSet(S \ {r}, c)

ColumnsOf(S) == UNION {DOMAIN r : r \in S}

\* the first of the columns c1, c2 that the frame has, else 0.0
Pick(row, cols, c1, c2) ==
    IF c1 \in cols THEN row[c1] ELSE IF c2 \in cols THEN row[c2] ELSE 0

\* sheets['Resumo Saidas por CFOP-CST'] (lines 1156-1184)
df_saidas(recs) ==
    LET rows == Rows(recs, "outputs")
        grp_cols_saidas == {"Competencia", "CNPJ", "Razao Social", "CFOP", "CST ICMS"}
                           \cap Columns(rows)
    IN  {Renamed(g, "Valor Total Nota" :> "Valor Contabil" @@ "Valor ICMS" :> "ICMS"
                    @@ "Valor IPI Nota" :> "IPI") :
           g \in GroupBy(rows, grp_cols_saidas,
                         {"Valor Total Nota", "BC ICMS", "Valor ICMS", "Valor IPI Nota"})}

\* df_out whose Valor Contabil prefers the operation value of the summary
df_out_Operation(recs) ==
    LET rows == Rows(recs, "outputs")
        cols == Columns(rows)
    IN  [i \in DOMAIN rows |->
           Update(rows[i],
                  "Valor Contabil" :> Pick(rows[i], cols, "Valor Operacao", "Valor Total Nota")
                  @@ "ICMS" :> Pick(rows[i], cols, "Valor ICMS", "Valor ICMS Nota")
                  @@ "IPI" :> Pick(rows[i], cols, "Valor IPI Nota", "Valor IPI (C190)"))]

\* df_out: the outputs with the columns Valor Contabil, ICMS, IPI (lines 1302-1329)
df_out(recs) ==
    LET rows == Rows(recs, "outputs")
        cols == Columns(rows)
    IN  [i \in DOMAIN rows |->
           Update(rows[i],
                  "Valor Contabil" :> Pick(rows[i], cols, "Valor Total Nota", "Valor Operacao")
                  @@ "ICMS" :> Pick(rows[i], cols, "Valor ICMS", "Valor ICMS Nota")
                  @@ "IPI" :> Pick(rows[i], cols, "Valor IPI Nota", "Valor IPI (C190)"))]

\* df_in: the entries with the columns Valor Contabil, ICMS, IPI (lines 1345-1367)
df_in(recs) ==
    LET rows == Rows(recs, "entries")
        cols == Columns(rows)
    IN  [i \in DOMAIN rows |->
           Update(rows[i],
                  "Valor Contabil" :> Pick(rows[i], cols, "Valor Total Item", "Valor Total Item")
                  @@ "ICMS" :> Pick(rows[i], cols, "Valor ICMS Item", "Valor ICMS Nota")
                  @@ "IPI" :> Pick(rows[i], cols, "Valor IPI Item", "Valor IPI Nota"))]

\* _build_category: the rows of df whose cleaned CFOP is in codes, grouped by
\* period and company; no row when no CFOP matches
build_category(df, name, codes) ==
    LET sub == SelectSeq(df, LAMBDA r : replace_dots(r["CFOP"]) \in codes)
        group_cols == {"Competencia", "CNPJ", "Razao Social"} \cap Columns(sub)
    IN  {g @@ ("Categoria" :> name @@ "Total Impostos" :> g["ICMS"] + g["IPI"]) :
           g \in GroupBy(sub, group_cols, {"Valor Contabil", "ICMS", "IPI"})}

\* df_dre that gives every category the outbound and the inbound rows
df_dre_AllRows(recs) ==
    LET all == df_out(recs) \o df_in(recs)
    IN  build_category(all, "Receita", revenue_cfops)
        \cup build_category(all, "Outras Saidas", other_cfops)
        \cup build_category(all, "Custos", cost_cfops)
        \cup build_category(all, "Despesas", expense_cfops)

\* sheets['DRE Fiscal']: the four category tables
df_dre(recs) ==
    build_category(df_out(recs), "Receita", revenue_cfops)
    \cup build_category(df_out(recs), "Outras Saidas", other_cfops)
    \cup build_category(df_in(recs), "Custos", cost_cfops)
    \cup build_category(df_in(recs), "Despesas", expense_cfops)

\* TaxBurden without the conversion to a percentage
TaxBurden_Fraction(total_taxes, total_rev) ==
    IF total_rev > 0 THEN total_taxes \div total_rev ELSE 0

\* tax_burden * 100, with tax_burden = total_taxes / total_rev if total_rev > 0
TaxBurden(total_taxes, total_rev) ==
    IF total_rev > 0 THEN (total_taxes * 100) \div total_rev ELSE 0

\* the KPI rows: one per period and company of the DRE (lines 1411-1446)
df_kpi(recs) ==
    LET dre == df_dre(recs)
        grp_fields == {"Competencia", "CNPJ", "Razao Social"} \cap ColumnsOf(dre)
        comp_df(k) == {r \in dre : Restrict(r, grp_fields) = k}
        of(k, name) == {r \in comp_df(k) : r["Categoria"] = name}
        total_rev(k) == SumSet(of(k, "Receita"), "Valor Contabil")
        total_cost(k) == SumSet(of(k, "Custos"), "Valor Contabil")
        total_taxes(k) == SumSet(of(k, "Receita"), "Total Impostos")
    IN  {k @@ ("Receita" :> total_rev(k)
               @@ "Custos" :> total_cost(k)
               @@ "Margem Bruta" :> total_rev(k) - total_cost(k)
               @@ "Total Impostos" :> total_taxes(k)
               @@ "Carga Tributaria Efetiva (%)" :> TaxBurden(total_taxes(k), total_rev(k)))
         : k \in {Restrict(r, grp_fields) : r \in dre}}

BalanceKey == {"CNPJ", "Competencia"}

\* credit_sum and debit_sum: entries and outputs grouped by CNPJ and period
credit_sum(recs) ==
    GroupBy(Rows(recs, "entries"), BalanceKey,
            {"BC ICMS Item", "Valor ICMS Item", "Valor IPI Item"})
debit_sum(recs) ==
    GroupBy(Rows(recs, "outputs"), BalanceKey,
            {"BC ICMS", "Valor ICMS", "Valor IPI Nota"})

\* MergeKeys of pd.merge(..., how='inner')
MergeKeys_Inner(credit, debit) ==
    {Restrict(r, BalanceKey) : r \in credit} \cap {Restrict(r, BalanceKey) : r \in debit}

\* the keys of pd.merge(credit_sum, debit_sum, on=[...], how='outer')
MergeKeys(credit, debit) == {Restrict(r, BalanceKey) : r \in credit \cup debit}

\* column c of the side `summed` for key k; fillna(0.0) when the side lacks k
Side(summed, k, c) == SumSet({r \in summed : Restrict(r, BalanceKey) = k}, c)

\* balance_rows (lines 1497-1514)
balance_rows(recs) ==
    {LET icms_cred == Side(credit_sum(recs), k, "Valor ICMS Item")
         icms_deb == Side(debit_sum(recs), k, "Valor ICMS")
         ipi_cred == Side(credit_sum(recs), k, "Valor IPI Item")
         ipi_deb == Side(debit_sum(recs), k, "Valor IPI Nota")
     IN  k @@ ("ICMS a Recuperar (Entradas)" :> icms_cred
               @@ "ICMS a Pagar (Saidas)" :> icms_deb
               @@ "Saldo ICMS (Cred - Deb)" :> icms_cred - icms_deb
               @@ "IPI a Recuperar (Entradas)" :> ipi_cred
               @@ "IPI a Pagar (Saidas)" :> ipi_deb
               @@ "Saldo IPI (Cred - Deb)" :> ipi_cred - ipi_deb)
     : k \in MergeKeys(credit_sum(recs), debit_sum(recs))}

\* NetPayable without the clamp at zero
NetPayable_Signed(b) ==
    (b["ICMS a Pagar (Saidas)"] - b["ICMS a Recuperar (Entradas)"])
    + (b["IPI a Pagar (Saidas)"] - b["IPI a Recuperar (Entradas)"])

\* df_balance['NetPayable'] (lines 1526-1534)
NetPayable(b) ==
    LET x == (b["ICMS a Pagar (Saidas)"] - b["ICMS a Recuperar (Entradas)"])
             + (b["IPI a Pagar (Saidas)"] - b["IPI a Recuperar (Entradas)"])
    IN  IF x > 0 THEN x ELSE 0

\* ratio = (net_payable / receita) * 100 if receita > 0 else 0.0
Ratio(net_payable, receita) ==
    IF receita > 0 THEN (net_payable * 100) \div receita ELSE 0

\* df_kpi with the column Imposto/Faturamento (%) (lines 1517-1561)
df_kpi_ratio(recs) ==
    LET bal == {Update(b, "NetPayable" :> NetPayable(b)) : b \in balance_rows(recs)}
        balance_key_cols == {"Competencia", "CNPJ", "Razao Social"} \cap ColumnsOf(bal)
        key(row) == [c \in balance_key_cols |-> IF c \in DOMAIN row THEN row[c] ELSE ""]
        net_payable(row) == SumSet({b \in bal : Restrict(b, balance_key_cols) = key(row)},
                                   "NetPayable")
    IN  {Update(row, "Imposto/Faturamento (%)" :> Ratio(net_payable(row), row["Receita"]))
         : row \in df_kpi(recs)}

\* the table of a sheet; TRUE for a sheet whose rows are not modelled
SheetOf(recs, n) ==
    CASE n = "Resumo UF-CFOP" -> ResumoUfCfop(recs)
      [] n \in {"Resumo Itens por NCM-CFOP", "Resumo CFOP-NCM-CST", "Ranking Produtos",
                 "Resumo NCM"} -> ItemSummary(Rows(recs, "items"), ItemWanted(n))
      [] n = "DRE Fiscal" -> df_dre(recs)
      [] n = "Resumo Saidas por CFOP-CST" -> df_saidas(recs)
      [] n = "Indicadores Fiscais" -> df_kpi_ratio(recs)
      [] n = "Saldo Impostos" -> balance_rows(recs)
      [] OTHER -> TRUE

\* `return sheets` is the last statement of the block
\* `if not df_entries.empty or not df_outputs.empty:` (lines 1468-1564)
ReachesReturn(recs) == NotEmpty(recs, "entries") \/ NotEmpty(recs, "outputs")

\* the value aggregate_records returns: the dict (sheet name -> present), or
\* None when the function ends without reaching `return sheets`
aggregate_records(recs) ==
    IF ReachesReturn(recs) THEN [n \in SheetNames(recs) |-> SheetOf(recs, n)] ELSE None

-----------------------------------------------------------------------------
(* main *)

\* the paths a command line names (the same path may be named twice)
FileNames == {"f1", "f2"}

\* InitialNote that keeps the note the previous call left open
InitialNote_Kept == current_note

\* current_note: Optional[dict] = None (line 480)
InitialNote == None

\* InitialCatalog that keeps the catalog the previous call built
InitialCatalog_Kept == ncm_map

\* ncm_map: Dict[str, str] = {} (line 478)
InitialCatalog == <<>>

\* os.path.isfile(path) is false: the path is reported and skipped
SkipPath ==
    /\ pc = "main"
    /\ path_i < MaxFiles
    /\ path_i' = path_i + 1
    /\ UNCHANGED <<pc, lines, record, parser_locals, records, files, sheets, main_ret, inputs>>

\* rec = parse_sped_file(path, xml_map, tipi_map): entry (lines 473-524)
CallParse(path) ==
    /\ pc = "main"
    /\ path_i < MaxFiles
    /\ path_i' = path_i + 1
    /\ file_path' = path
    /\ record' = SpedRecord
    /\ lines' = <<>>
    /\ ncm_map' = InitialCatalog
    /\ desc_map' = <<>>
    /\ current_note' = InitialNote
    /\ current_note_key' = NoneStr
    /\ current_note_is_entry' = FALSE
    /\ current_note_has_c190' = FALSE
    /\ current_cte' = None
    /\ current_e200' = None
    /\ current_e300' = None
    /\ current_e310' = None
    /\ current_e500' = None
    /\ master' = MasterInit
    /\ block_flags' = FlagsInit
    /\ pc' = "open"
    /\ UNCHANGED <<records, files, sheets, main_ret, xml_map, tipi>>

\* records.append(rec)
ReturnRecord ==
    /\ pc \in {"done", "failed"}
    /\ records' = Append(records, record)
    /\ files' = Append(files, [path |-> file_path, lines |-> lines])
    /\ pc' = "main"
    /\ UNCHANGED <<lines, record, parser_locals, path_i, sheets, main_ret, inputs>>

\* the paths are exhausted: if not records: return 1
CheckRecords ==
    /\ pc = "main"
    /\ path_i >= 1
    /\ IF records = <<>>
       THEN pc' = "exit" /\ main_ret' = "return 1"
       ELSE pc' = "aggregate" /\ UNCHANGED main_ret
    /\ UNCHANGED <<lines, record, parser_locals, path_i, records, files, sheets, inputs>>

\* sheets = aggregate_records(records); write_excel(sheets, ...); return 0
\* write_excel iterates sheets.items(), which raises on None
AggregateAndWrite ==
    /\ pc = "aggregate"
    /\ sheets' = aggregate_records(records)
    /\ main_ret' = IF sheets' = None THEN "raise" ELSE "return 0"
    /\ pc' = "exit"
    /\ UNCHANGED <<lines, record, parser_locals, path_i, records, files, inputs>>

-----------------------------------------------------------------------------
(* Specifications *)

\* one call of parse_sped_file
Init ==
    /\ pc = "open"
    /\ file_path = "f1"
    /\ \E m \in Maps : xml_map = m[1] /\ tipi = m[2]
    /\ lines = <<>>
    /\ record = SpedRecord
    /\ LocalsInit
    /\ path_i = 0
    /\ records = <<>>
    /\ files = <<>>
    /\ sheets = None
    /\ main_ret = "running"

Next ==
    \/ OpenFile
    \/ OpenError
    \/ FileError
    \/ EndOfFile
    \/ \E parts \in Lines : OnOther(parts)
    \/ \E parts \in Lines : On0000(parts)
    \/ \E parts \in Lines : On0200(parts)
    \/ \E parts \in Lines : OnC100(parts)
    \/ \E parts \in Lines : OnC170(parts)
    \/ \E parts \in Lines : OnC190(parts)
    \/ \E parts \in Lines : OnD100(parts)
    \/ \E parts \in Lines : OnD190(parts)
    \/ \E parts \in Lines : OnC195(parts)
    \/ \E parts \in Lines : OnC197(parts)
    \/ \E parts \in Lines : OnE111(parts)

Spec == Init /\ [][Next]_vars

\* one run of main over up to MaxFiles paths
InitBatch ==
    /\ pc = "main"
    /\ file_path = ""
    /\ \E m \in Maps : xml_map = m[1] /\ tipi = m[2]
    /\ lines = <<>>
    /\ record = SpedRecord
    /\ LocalsInit
    /\ path_i = 0
    /\ records = <<>>
    /\ files = <<>>
    /\ sheets = None
    /\ main_ret = "running"

NextBatch ==
    \/ SkipPath
    \/ \E path \in FileNames : CallParse(path)
    \/ OpenFile
    \/ OpenError
    \/ FileError
    \/ EndOfFile
    \/ \E parts \in BatchLines : OnC100(parts)
    \/ \E parts \in BatchLines : OnC170(parts)
    \/ \E parts \in BatchLines : OnC190(parts)
    \/ \E parts \in BatchLines : OnD100(parts)
    \/ \E parts \in BatchLines : OnD190(parts)
    \/ ReturnRecord
    \/ CheckRecords
    \/ AggregateAndWrite

SpecBatch == InitBatch /\ [][NextBatch]_vars

\* one call of parse_sped_file on a file of catalog, header, item and summary
\* lines
NextRates ==
    \/ OpenFile
    \/ EndOfFile
    \/ \E parts \in RateLines : On0200(parts)
    \/ \E parts \in RateLines : OnC100(parts)
    \/ \E parts \in RateLines : OnC170(parts)
    \/ \E parts \in RateLines : OnC190(parts)

SpecRates == Init /\ [][NextRates]_vars

\* main over a command line that names the same path each time; the file may
\* hold the same lines at each parse, or other lines
TwiceLines == {L0200, LC100In, LC170}

NextTwice ==
    \/ CallParse("f1")
    \/ OpenFile
    \/ EndOfFile
    \/ \E parts \in TwiceLines : On0200(parts)
    \/ \E parts \in TwiceLines : OnC100(parts)
    \/ \E parts \in TwiceLines : OnC170(parts)
    \/ ReturnRecord

SpecTwice == InitBatch /\ [][NextTwice]_vars

\* one call of parse_sped_file that runs to its end: the loop takes the next
\* line of f or leaves at the end of f, so a step is always taken
PassLines == {LC100Out, LC100In, LC190, LBlank}

NextPass ==
    \/ OpenFile
    \/ OpenError
    \/ FileError
    \/ EndOfFile
    \/ \E parts \in PassLines : OnOther(parts)
    \/ \E parts \in PassLines : OnC100(parts)
    \/ \E parts \in PassLines : OnC190(parts)

SpecPass == Init /\ [][NextPass]_vars /\ WF_vars(NextPass)

\* one call of parse_sped_file on a file of headers and adjustment lines
AdjLines == {LC100In, LC100Other, LC195, LC195Blank, LC197, LE111, LE115, LE116}

NextAdj ==
    \/ OpenFile
    \/ EndOfFile
    \/ \E parts \in AdjLines : OnC100(parts)
    \/ \E parts \in AdjLines : OnC195(parts)
    \/ \E parts \in AdjLines : OnC197(parts)
    \/ \E parts \in AdjLines : OnE111(parts)
    \/ \E parts \in AdjLines : OnE115(parts)
    \/ \E parts \in AdjLines : OnE116(parts)

SpecAdj == Init /\ [][NextAdj]_vars

\* one call of parse_sped_file on a file of period-block lines
BlockLines == {LE200, LE200Short, LE210, LE300, LE300Short, LE310, LE316,
               LE500, LE510}

NextBlocks ==
    \/ OpenFile
    \/ EndOfFile
    \/ \E parts \in BlockLines : OnE200(parts)
    \/ \E parts \in BlockLines : OnE210(parts)
    \/ \E parts \in BlockLines : OnE300(parts)
    \/ \E parts \in BlockLines : OnE310(parts)
    \/ \E parts \in BlockLines : OnE316(parts)
    \/ \E parts \in BlockLines : OnE500(parts)
    \/ \E parts \in BlockLines : OnE510(parts)

SpecBlocks == Init /\ [][NextBlocks]_vars

\* one call of parse_sped_file on a file of catalog lines
CatalogLines == {L0200, L0200NoNcm, L0200NoDesc, L0200NoCode, L0200Short,
                 L0200Second}

NextCatalog ==
    \/ OpenFile
    \/ EndOfFile
    \/ \E parts \in CatalogLines : On0200(parts)

SpecCatalog == Init /\ [][NextCatalog]_vars

\* one call of parse_sped_file on a file of header (0000) lines
MasterLines == {L0000, L0000Feb, L0000BadStart, L0000StartWins, L0000NoDates,
                L0000Short}

NextMaster ==
    \/ OpenFile
    \/ EndOfFile
    \/ \E parts \in MasterLines : On0000(parts)

SpecMaster == Init /\ [][NextMaster]_vars

\* one call of parse_sped_file on a file of document and freight lines
DocLines == {LC100Out, LC100In, LC100Bad, LC100Other, LC170, LC190, LD100, LD190}

NextDocs ==
    \/ OpenFile
    \/ EndOfFile
    \/ \E parts \in DocLines : OnC100(parts)
    \/ \E parts \in DocLines : OnC170(parts)
    \/ \E parts \in DocLines : OnC190(parts)
    \/ \E parts \in DocLines : OnD100(parts)
    \/ \E parts \in DocLines : OnD190(parts)

SpecDocs == Init /\ [][NextDocs]_vars

\* one call of parse_sped_file on a file of headers, summaries and block lines
FlagLines == {LC100Out, LC100In, LC190, LC190St, LC190StOnly, LC190Difal,
              LC190Dotted, LE210, LG110}

NextFlags ==
    \/ OpenFile
    \/ EndOfFile
    \/ \E parts \in FlagLines : OnC100(parts)
    \/ \E parts \in FlagLines : OnC190(parts)
    \/ \E parts \in FlagLines : OnE210(parts)
    \/ \E parts \in FlagLines : OnTracked(parts)

SpecFlags == Init /\ [][NextFlags]_vars

\* one call of parse_sped_file on a file of document headers
HeaderLines == {LC100Out, LC100In, LC100Both, LC100Low, LC100BlankHigh,
                LC100Short, LC100BadHigh, LC100Other}

NextHeaders ==
    \/ OpenFile
    \/ EndOfFile
    \/ \E parts \in HeaderLines : OnC100(parts)

SpecHeaders == Init /\ [][NextHeaders]_vars

\* one call of parse_sped_file on a file of master, catalog and document lines
ScopeLines == {L0000, L0000Feb, L0200, L0200Unlisted, LC100In, LC100Out,
               LC170, LC190}

NextScope ==
    \/ OpenFile
    \/ EndOfFile
    \/ \E parts \in ScopeLines : On0000(parts)
    \/ \E parts \in ScopeLines : On0200(parts)
    \/ \E parts \in ScopeLines : OnC100(parts)
    \/ \E parts \in ScopeLines : OnC170(parts)
    \/ \E parts \in ScopeLines : OnC190(parts)

SpecScope == Init /\ [][NextScope]_vars

\* one call of parse_sped_file on a file of the ST and DIFAL block lines
AttribLines == {LE200, LE200Rj, LE200Short, LE210, LE300, LE300Pr, LE300Short,
                LE310, LE316}

NextAttrib ==
    \/ OpenFile
    \/ EndOfFile
    \/ \E parts \in AttribLines : OnE200(parts)
    \/ \E parts \in AttribLines : OnE210(parts)
    \/ \E parts \in AttribLines : OnE300(parts)
    \/ \E parts \in AttribLines : OnE310(parts)
    \/ \E parts \in AttribLines : OnE316(parts)

SpecAttrib == Init /\ [][NextAttrib]_vars

\* one call of parse_sped_file on a file of headers and item lines
UsoLines == {LC100In, LC100Out, LC170, LC170Uso, LC170UsoIpi, LC170UsoClean,
             LC170UsoNeg}

NextUso ==
    \/ OpenFile
    \/ EndOfFile
    \/ \E parts \in UsoLines : OnC100(parts)
    \/ \E parts \in UsoLines : OnC170(parts)

SpecUso == Init /\ [][NextUso]_vars

\* one call of aggregate_records on collections of at most MaxRows rows
MasterX == ("competence" :> "01/2024" @@ "company_name" :> "ACME" @@ "company_cnpj" :> "X"
            @@ "company_ie" :> "" @@ "company_cod_mun" :> "3550308")
MasterY == ("competence" :> "01/2024" @@ "company_name" :> "BETA" @@ "company_cnpj" :> "Y"
            @@ "company_ie" :> "" @@ "company_cod_mun" :> "3550308")

\* item rows of inbound documents of the companies X and Y
EntryRows ==
    {ItemRecOf(C100NoteOf("f1", m, LC100In), <<>>, <<>>, l) :
        m \in {MasterX, MasterY}, l \in {LC170Thirty, LC170}}

\* summary rows of outbound documents of the companies X and Y
OutputRows ==
    {OutRecOf(C100NoteOf("f1", MasterX, h), l) :
        h \in {LC100Out, LC100OutNeg}, l \in {LC190Fifty, LC190}}
    \cup {OutRecOf(C100NoteOf("f1", MasterY, LC100Out), LC190Fifty)}

SeqsUpTo(S, n) == UNION {[1..k -> S] : k \in 0..n}

\* the rows without the columns `drop`
Without(rows, drop) == [i \in DOMAIN rows |-> Restrict(rows[i], DOMAIN rows[i] \ drop)]

InitAgg ==
    /\ pc = "aggregate"
    /\ file_path = ""
    /\ xml_map = <<>> /\ tipi = <<>>
    /\ lines = <<>>
    /\ record = SpedRecord
    /\ LocalsInit
    /\ path_i = 1
    /\ \E ent \in SeqsUpTo(EntryRows, MaxRows), out \in SeqsUpTo(OutputRows, MaxRows),
          drop \in {{}, {"UF"}} :
          records = << [SpedRecord EXCEPT !.entries = ent, !.outputs = out,
                                          !.items = Without(ent, drop)] >>
    /\ files = <<>>
    /\ sheets = None
    /\ main_ret = "running"

\* item rows of inbound documents: a cost code, an expense code, a code of no
\* category and a revenue code for company X, a cost code for company Y
DreEntryRows ==
    LET ncms == ("P001" :> "12345678" @@ "P002" :> "87654321")
        descs == ("P001" :> "Widget" @@ "P002" :> "Gadget")
    IN  {ItemRecOf(C100NoteOf("f1", MasterX, LC100In), ncms, descs, l) :
            l \in {LC170, LC170UsoClean, LC170Uso, LC170Rev}}
        \cup {ItemRecOf(C100NoteOf("f1", MasterY, LC100In), ncms, descs, LC170Thirty)}

\* summary rows of outbound documents of company X
DreOutputRows ==
    {OutRecOf(C100NoteOf("f1", MasterX, LC100Out), l) :
        l \in {LC190, LC190Dot, LC190Other, LC190Return, LC190St, LC190Cost}}
    \cup {OutRecOf(C100NoteOf("f1", MasterX, LC100Low), LC190)}

\* one call of aggregate_records on rows of every category and of none
InitDre ==
    /\ pc = "aggregate"
    /\ file_path = ""
    /\ xml_map = <<>> /\ tipi = <<>>
    /\ lines = <<>>
    /\ record = SpedRecord
    /\ LocalsInit
    /\ path_i = 1
    /\ \E ent \in SeqsUpTo(DreEntryRows, MaxRows), out \in SeqsUpTo(DreOutputRows, MaxRows) :
          records = << [SpedRecord EXCEPT !.entries = ent, !.outputs = out,
                                          !.items = ent] >>
    /\ files = <<>>
    /\ sheets = None
    /\ main_ret = "running"

NextAgg == AggregateAndWrite

SpecDre == InitDre /\ [][NextAgg]_vars

SpecAgg == InitAgg /\ [][NextAgg]_vars

-----------------------------------------------------------------------------
(* Properties of the parser, stated over the lines read so far *)

\* the line just read
parts_read == lines[Len(lines)]

IsHeader(p) == HasSeparator(p) /\ Rec(p) = "C100"
IsSummary(p) == HasSeparator(p) /\ Rec(p) = "C190"
OpensOutbound(p) == IsHeader(p) /\ Len(p) > 2 /\ strip(p[3]) = "1"

\* the position of the header that follows line i, or one past the last line
NextHeader(i) ==
    IF \E j \in (i + 1)..Len(lines) : IsHeader(lines[j])
    THEN CHOOSE j \in (i + 1)..Len(lines) :
            /\ IsHeader(lines[j])
            /\ \A k \in (i + 1)..(j - 1) : ~IsHeader(lines[k])
    ELSE Len(lines) + 1

\* the outbound headers that were closed, by a later header or by the end of
\* the file, with no summary line in between
ClosedWithoutSummary ==
    {i \in 1..Len(lines) :
        /\ OpensOutbound(lines[i])
        /\ NextHeader(i) <= Len(lines) \/ pc = "done"
        /\ \A k \in (i + 1)..(NextHeader(i) - 1) : ~IsSummary(lines[k])}

\* the n-th smallest element of a set of numbers
Nth(S, n) == CHOOSE i \in S : Cardinality({j \in S : j < i}) = n - 1

\* C1: every outbound document closed by the next header or by the end of the
\* file without a summary line while it was open is in missing_c190, once, in
\* the order of closing, and nothing else is.
C1_MissingSummaryRecorded ==
    pc \in {"lines", "done"} =>
        /\ Len(record.missing_c190) = Cardinality(ClosedWithoutSummary)
        /\ \A n \in 1..Len(record.missing_c190) :
              record.missing_c190[n]["Chave"]
                  = Field(lines[Nth(ClosedWithoutSummary, n)], 9)

\* an outbound header directly followed by another header gave one anomaly
\* that references the first document
C1_Witness ==
    /\ Len(lines) >= 2
    /\ OpensOutbound(lines[1])
    /\ IsHeader(lines[2])
    /\ Len(record.missing_c190) = 1
    /\ record.missing_c190[1]["Chave"] = Field(lines[1], 9)

\* the columns of a note that come from its header line alone
HeaderColumns == {"Serie da nota", "Numero da nota", "Chave", "Data de emissao",
                  "Valor Total Nota", "BC ICMS Nota", "Valor ICMS Nota",
                  "Valor IPI Nota", "Tipo Nota"}

CteColumns == {"Chave CT-e", "Serie CT-e", "Numero CT-e", "Valor Total CT-e"}

\* the last line of register reg read so far
HasLine(reg) == \E i \in 1..Len(lines) : Rec(lines[i]) = reg
LastLine(reg) ==
    lines[CHOOSE i \in 1..Len(lines) :
            /\ Rec(lines[i]) = reg
            /\ \A j \in (i + 1)..Len(lines) : Rec(lines[j]) # reg]

\* the direction indicator of header p is one of the two recognised values
Recognised(p) == Len(p) > 2 /\ strip(p[3]) \in {"0", "1"}

\* row carries the header columns of the most recent C100 line
FromLastHeader(row) ==
    /\ HasLine("C100")
    /\ Recognised(LastLine("C100"))
    /\ \A c \in HeaderColumns : row[c] = C100Note(LastLine("C100"))[c]

\* row carries the columns of the most recent D100 line
FromLastCte(row) ==
    /\ HasLine("D100")
    /\ \A c \in CteColumns : row[c] = D100Cte(LastLine("D100"))[c]

Last(seq) == seq[Len(seq)]

LastItemFromHeader == FromLastHeader(Last(record.items))
LastOutputFromHeader == FromLastHeader(Last(record.outputs))
LastCteFromHeader == FromLastCte(Last(record.cte))

\* C2: the open transaction document and the open freight document are those
\* of the most recent header of their kind, and a row emitted after a new
\* header carries the fields of that header, never those of an earlier one.
C2_OneOpenDocument ==
    /\ [](pc = "lines" =>
            /\ current_note # None => FromLastHeader(current_note)
            /\ current_cte # None => FromLastCte(current_cte))
    /\ [][pc = "lines" /\ pc' = "lines" =>
            /\ Len(record'.items) > Len(record.items)
                  => LastItemFromHeader'
            /\ Len(record'.outputs) > Len(record.outputs)
                  => LastOutputFromHeader'
            /\ Len(record'.cte) > Len(record.cte)
                  => LastCteFromHeader']_vars

\* a second header was read while a document was open, and the item that
\* followed carries the key of the second header
C2_Witness ==
    /\ Len(lines) = 3
    /\ Recognised(lines[1]) /\ IsHeader(lines[1])
    /\ Recognised(lines[2]) /\ IsHeader(lines[2])
    /\ Field(lines[1], 9) # Field(lines[2], 9)
    /\ Len(record.items) = 1
    /\ record.items[1]["Chave"] = Field(lines[2], 9)

\* C3: an item row is emitted only while a document is open, a summary row
\* only while an outbound document is open; a summary line read with no
\* document or an inbound document open emits nothing and marks nothing.
C3_RowsNeedOpenDocument ==
    [][pc = "lines" /\ pc' = "lines" =>
         /\ Len(record'.items) > Len(record.items) => current_note # None
         /\ Len(record'.outputs) > Len(record.outputs)
               => current_note # None /\ current_note["Tipo Nota"] = "Saida"
         /\ (IsSummary(parts_read')
               /\ (current_note = None \/ current_note["Tipo Nota"] = "Entrada"))
               => /\ record' = record
                  /\ ~current_note_has_c190'
                  /\ current_note' = current_note]_vars

\* a summary line was read under an open inbound document and left no row
C3_Witness ==
    /\ Len(lines) >= 2
    /\ IsSummary(parts_read)
    /\ current_note # None
    /\ current_note["Tipo Nota"] = "Entrada"
    /\ record.outputs = <<>>
    /\ ~current_note_has_c190

\* the rows of the global item list whose parent direction is inbound
InboundItems == {j \in DOMAIN record.items : record.items[j]["Tipo Nota"] = "Entrada"}

\* C4: the inbound rows of the global item list are as many as the entries,
\* and every entries row is a row of the global item list.
C4_EntriesConservation ==
    /\ Cardinality(InboundItems) = Len(record.entries)
    /\ \A i \in DOMAIN record.entries :
          \E j \in DOMAIN record.items : record.items[j] = record.entries[i]

\* the pass ended with an inbound item, which got the XML columns
C4_Witness ==
    /\ pc = "done"
    /\ Len(record.entries) = 1
    /\ "Valor ICMS XML" \in DOMAIN record.entries[1]
    /\ Len(record.items) >= 1

\* the text of a numeric field that is not blank and is not a number
Malformed(text) == strip(text) # "" /\ strip(text) \notin DOMAIN FloatOf

\* field i of line p is present and malformed
BadField(p, i) == Len(p) > i /\ Malformed(p[i + 1])

\* the numeric fields of a header line and the columns they fill
HeaderNumbers == {<<12, "Valor Total Nota">>, <<21, "BC ICMS Nota">>,
                  <<22, "Valor ICMS Nota">>, <<25, "Valor IPI Nota">>}

HeaderMalformed(p) == IsHeader(p) /\ \E f \in HeaderNumbers : BadField(p, f[1])

\* C5 as stated: after a header whose numeric fields are malformed no document
\* is open.
C5_MalformedHeaderOpensNothing ==
    (pc = "lines" /\ HasLine("C100") /\ HeaderMalformed(LastLine("C100")))
        => current_note = None

PerDocument == {"C170", "C190", "C195", "C197"}

\* C5 amended: a header opens a document exactly when its direction indicator
\* is recognised; a malformed numeric field of the header is read as 0 and does
\* not discard the document; while no document is open, item, summary and
\* per-document adjustment lines change nothing.
C5_MalformedHeaderStillOpens ==
    /\ [](pc = "lines" /\ HasLine("C100") =>
            /\ current_note # None <=> Recognised(LastLine("C100"))
            /\ current_note # None =>
                  \A f \in HeaderNumbers :
                      BadField(LastLine("C100"), f[1]) => current_note[f[2]] = 0)
    /\ [][(pc = "lines" /\ pc' = "lines" /\ current_note = None
             /\ Rec(parts_read') \in PerDocument)
          => (record' = record /\ current_note' = None)]_vars

\* a malformed header was read and the item line after it gave a row of that
\* document, its total read as 0
C5_Witness ==
    /\ Len(lines) >= 2
    /\ HeaderMalformed(lines[1])
    /\ Len(record.items) = 1
    /\ record.items[1]["Chave"] = Field(lines[1], 9)
    /\ record.items[1]["Valor Total Nota"] = 0

\* the numeric fields of an item line and of a summary line, with their columns
ItemNumbers == {<<7, "Valor Total Item">>, <<13, "BC ICMS Item">>,
                <<14, "Aliquota ICMS Item (%)">>, <<15, "Valor ICMS Item">>,
                <<23, "Aliquota IPI Item (%)">>, <<24, "Valor IPI Item">>}
SummaryNumbers == {<<4, "Aliquota ICMS">>, <<5, "Valor Operacao">>, <<6, "BC ICMS">>,
                   <<7, "Valor ICMS">>, <<11, "Valor IPI (C190)">>}

IsItem(p) == HasSeparator(p) /\ Rec(p) = "C170"
ShortItem(p) == IsItem(p) /\ Len(p) < 25
ShortSummary(p) == IsSummary(p) /\ Len(p) < 12
BadItem(p) == IsItem(p) /\ (ShortItem(p) \/ \E f \in ItemNumbers : BadField(p, f[1]))
BadSummary(p) ==
    IsSummary(p) /\ (ShortSummary(p) \/ \E f \in SummaryNumbers : BadField(p, f[1]))

\* a step of the loop over the lines
LineStep == pc = "lines" /\ pc' = "lines" /\ lines' # lines

\* C6 as stated: an item or summary line with a malformed numeric field or too
\* few fields emits no row.
C6_BadLineEmitsNoRow ==
    [][(LineStep /\ (BadItem(parts_read') \/ BadSummary(parts_read')))
       => /\ Len(record'.items) = Len(record.items)
          /\ Len(record'.outputs) = Len(record.outputs)]_vars

\* the row just appended reads as 0 the numeric fields of the line that are
\* malformed or missing
LastItemZeroed ==
    \A f \in ItemNumbers :
        BadField(parts_read, f[1]) => Last(record.items)[f[2]] = 0
LastOutputZeroed ==
    \A f \in SummaryNumbers :
        (BadField(parts_read, f[1]) \/ Len(parts_read) <= f[1])
            => Last(record.outputs)[f[2]] = 0

\* C6 amended: an item line with fewer than 25 fields emits no row and changes
\* nothing; an item line of at least 25 fields read with a document open, and
\* a summary line read with an outbound document open, emit one row whatever
\* their numeric fields hold, the malformed or missing ones read as 0; the
\* pass continues in every case.
C6_OnlyShortItemSkipped ==
    [][LineStep =>
         /\ ShortItem(parts_read')
               => record' = record /\ parser_locals' = parser_locals
         /\ (IsItem(parts_read') /\ ~ShortItem(parts_read') /\ current_note # None)
               => /\ Len(record'.items) = Len(record.items) + 1
                  /\ LastItemZeroed'
         /\ (IsSummary(parts_read') /\ current_note # None
               /\ current_note["Tipo Nota"] = "Saida")
               => /\ Len(record'.outputs) = Len(record.outputs) + 1
                  /\ LastOutputZeroed']_vars

\* an item line with malformed numbers was read with a document open and gave
\* a row with value 0; a cut summary line gave a row too
C6_Witness ==
    /\ Len(lines) = 3
    /\ BadItem(lines[2]) /\ ~ShortItem(lines[2])
    /\ ShortSummary(lines[3])
    /\ Len(record.items) = 1
    /\ record.items[1]["Valor Total Item"] = 0
    /\ Len(record.outputs) = 1

\* a line the loop skips: no separator, or an item line under the field gate
Skipped(p) == ~HasSeparator(p) \/ ShortItem(p)

-----------------------------------------------------------------------------
(* Properties of the batch *)

Collections == {"entries", "outputs", "imob_uso", "cte", "adjustments",
                "missing_c190", "items"}

\* record r holds no row in any collection
NoRows(r) == \A c \in Collections : r[c] = <<>>

\* C8: a file-level error, at open or during the pass, leaves a record that
\* carries a warning and holds no row in any collection.
C8_FailedFileHasNoRows ==
    /\ pc = "failed" => (record.parsing_warnings # <<>> /\ NoRows(record))
    /\ \A i \in DOMAIN records :
          records[i].parsing_warnings # <<>> => NoRows(records[i])

\* the file of record r was parsed without a file-level error
Parsed(r) == r.parsing_warnings = <<>>

SomeFileParsed == \E i \in DOMAIN records : Parsed(records[i])

\* C9: the batch ends in hard failure exactly when no file parsed
\* successfully, and goes on to aggregation only when some file did; a file
\* whose parse failed with a file-level error is not a parsed file.
C9_HardFailureIffNoFileParsed ==
    /\ pc = "aggregate" => SomeFileParsed
    /\ pc = "exit" => (main_ret # "return 0" <=> ~SomeFileParsed)

\* C10: aggregate_records returns the dict of the tables built from the
\* non-empty collections for every list of records, also when no record has
\* an entries row or an outputs row.
C10_AggregateReturnsSheets ==
    (pc = "exit" /\ records # <<>>) =>
        /\ sheets # None
        /\ DOMAIN sheets = SheetNames(records)

-----------------------------------------------------------------------------
(* Properties of successive parses *)

IsCatalog(p) == HasSeparator(p) /\ Rec(p) = "0200"

\* field f of the last catalog line of ls that gives product code cod a
\* non-blank field f, or '' when ls has none
Catalog(ls, cod, f) ==
    LET hits == {i \in 1..Len(ls) :
                    IsCatalog(ls[i]) /\ Field(ls[i], 2) = cod /\ cod # ""
                    /\ Field(ls[i], f) # ""}
    IN  IF hits = {} THEN ""
        ELSE Field(ls[CHOOSE i \in hits : \A j \in hits : j <= i], f)

\* C12: the classification and the description of an item are those of the
\* catalog lines read before it in its own file, whatever the files parsed
\* before held.
C12_CatalogScopedToFile ==
    [][(pc = "lines" /\ Len(record'.items) > Len(record.items)) =>
         /\ Last(record'.items)["NCM Item"]
               = Catalog(lines, Field(parts_read', 3), 8)
         /\ Last(record'.items)["Descricao do Produto"]
               = Catalog(lines, Field(parts_read', 3), 3)]_vars

\* the first file held a catalog line for the product, the second file none,
\* and the item of the second file has no classification
C12_Witness ==
    /\ Len(files) = 1
    /\ \E i \in DOMAIN files[1].lines : IsCatalog(files[1].lines[i])
    /\ pc = "lines"
    /\ \A i \in DOMAIN lines : ~IsCatalog(lines[i])
    /\ Len(record.items) = 1
    /\ record.items[1]["Cod. Item"] = Field(files[1].lines[1], 2)
    /\ record.items[1]["NCM Item"] = ""

-----------------------------------------------------------------------------
(* Properties of the rates of items and summaries *)

\* the step appended a row to the item list / to the outputs
ItemEmitted == pc = "lines" /\ Len(record'.items) > Len(record.items)
OutputEmitted == pc = "lines" /\ Len(record'.outputs) > Len(record.outputs)

\* the verdict of the declared excise rate of an item of product cod, the
\* catalog being that of the lines ls read before the item
Verdict(rate, cod, ls) ==
    LET ncm == Catalog(ls, cod, 8) IN
    IF rate = 0 THEN <<"Conforme">>
    ELSE IF tipi = <<>> THEN <<"TIPI nao carregada">>
    ELSE IF ncm = "" THEN <<"NCM nao encontrado">>
    ELSE IF ncm \notin DOMAIN tipi THEN <<"NCM nao encontrado na TIPI">>
    ELSE IF rate - tipi[ncm] < 1 /\ tipi[ncm] - rate < 1 THEN <<"Conforme">>
    ELSE <<"Divergente (TIPI)", tipi[ncm]>>

\* C13: the conformity verdict of every emitted item is decided in the order
\* zero rate, table not loaded, classification not found, classification not
\* in the table, rate equal to the table value, divergent with the table
\* value.
C13_VerdictOrder ==
    [][ItemEmitted =>
         Last(record'.items)["Conformidade IPI x TIPI"]
             = Verdict(Last(record'.items)["Aliquota IPI Item (%)"],
                       Field(parts_read', 3), lines)]_vars

\* product P001 is in the catalog with a classification of the table, the
\* item declares another rate, and the verdict is divergent with the table
\* value
C13_Witness ==
    /\ tipi # <<>>
    /\ Len(record.items) = 1
    /\ record.items[1]["NCM Item"] \in DOMAIN tipi
    /\ record.items[1]["Aliquota IPI Item (%)"] = 7
    /\ record.items[1]["Conformidade IPI x TIPI"] = <<"Divergente (TIPI)", 10>>

\* tax / base x 100 over the numbers of the model (base not zero)
Percent(tax, base) ==
    IF base > 0 THEN (tax * 100) \div base ELSE 0 - ((tax * 100) \div (0 - base))

\* C14 as stated: the effective rate of an emitted item is tax / value x 100
\* whenever the item value is not zero, and zero when it is zero.
C14_ItemRateUnlessZero ==
    [][ItemEmitted =>
         LET row == Last(record'.items) IN
         row["Aliq. Efetiva (%)"] =
             IF row["Valor Total Item"] # 0
             THEN Percent(row["Valor ICMS Item"], row["Valor Total Item"])
             ELSE 0]_vars

\* C14 amended: the effective rate of an emitted item is tax / value x 100
\* whenever the item value is greater than zero, and zero when it is zero or
\* negative; every item line that passes the field gate under an open document
\* emits its row.
C14_ItemRateWhenPositive ==
    [][(pc = "lines" /\ lines' # lines /\ IsItem(parts_read')
          /\ ~ShortItem(parts_read') /\ current_note # None) =>
         /\ Len(record'.items) = Len(record.items) + 1
         /\ LET row == Last(record'.items) IN
            row["Aliq. Efetiva (%)"] =
                IF row["Valor Total Item"] > 0
                THEN Percent(row["Valor ICMS Item"], row["Valor Total Item"])
                ELSE 0]_vars

\* an item of value 100 and tax 15 got the rate 15, and an item of negative
\* value and tax 15 got the rate 0
C14_Witness ==
    /\ Len(record.items) = 2
    /\ record.items[1]["Valor Total Item"] = 100
    /\ record.items[1]["Valor ICMS Item"] = 15
    /\ record.items[1]["Aliq. Efetiva (%)"] = 15
    /\ record.items[2]["Valor Total Item"] < 0
    /\ record.items[2]["Valor ICMS Item"] = 15
    /\ record.items[2]["Aliq. Efetiva (%)"] = 0

\* C15 as stated: the effective rate of an emitted output summary row is
\* tax / base x 100 whenever the tax base is not zero, and zero when it is
\* zero.
C15_SummaryRateUnlessZero ==
    [][OutputEmitted =>
         LET row == Last(record'.outputs) IN
         row["Aliq. Efetiva (%)"] =
             IF row["BC ICMS"] # 0
             THEN Percent(row["Valor ICMS"], row["BC ICMS"])
             ELSE 0]_vars

\* C15 amended: the effective rate of an emitted output summary row is
\* tax / base x 100 whenever the tax base is greater than zero, and zero when
\* it is zero or negative.
C15_SummaryRateWhenPositive ==
    [][OutputEmitted =>
         LET row == Last(record'.outputs) IN
         row["Aliq. Efetiva (%)"] =
             IF row["BC ICMS"] > 0
             THEN Percent(row["Valor ICMS"], row["BC ICMS"])
             ELSE 0]_vars

\* a summary of base 100 and tax 15 got the rate 15, a summary of base 0 the
\* rate 0
C15_Witness ==
    /\ Len(record.outputs) = 2
    /\ record.outputs[1]["BC ICMS"] = 100
    /\ record.outputs[1]["Valor ICMS"] = 15
    /\ record.outputs[1]["Aliq. Efetiva (%)"] = 15
    /\ record.outputs[2]["BC ICMS"] = 0
    /\ record.outputs[2]["Valor ICMS"] = 15
    /\ record.outputs[2]["Aliq. Efetiva (%)"] = 0

-----------------------------------------------------------------------------
(* Properties of the XML cross-check *)

XmlColumns == {"Valor ICMS XML", "Valor IPI XML", "Valor Produtos XML"}

\* the document keys of the header lines read
DocumentKeys == {Field(lines[i], 9) : i \in {j \in DOMAIN lines : IsHeader(lines[j])}}

\* no map, or a map with none of the document keys of the file
NoKeyInMap == xml_map = <<>> \/ DocumentKeys \cap DOMAIN xml_map = {}

\* the rows of the item list, the entries and the outputs of the record
EmittedRows ==
    {record.items[i] : i \in DOMAIN record.items}
    \cup {record.entries[i] : i \in DOMAIN record.entries}
    \cup {record.outputs[i] : i \in DOMAIN record.outputs}

\* C16: with no map, or a map with none of the document keys of the file, no
\* row ever carries a comparison column, and the end of the pass leaves every
\* row as the loop emitted it.
C16_NoMatchLeavesRows ==
    /\ [](NoKeyInMap => \A row \in EmittedRows : DOMAIN row \cap XmlColumns = {})
    /\ [][(pc = "lines" /\ pc' = "done" /\ NoKeyInMap) =>
            /\ record'.items = record.items
            /\ record'.entries = record.entries
            /\ record'.outputs = record.outputs]_vars

\* a map was supplied, the file held a document whose key the map lacks, and
\* its item and summary rows ended the pass without comparison columns
C16_Witness ==
    /\ pc = "done"
    /\ xml_map # <<>>
    /\ NoKeyInMap
    /\ Len(record.items) = 1
    /\ Len(record.outputs) = 1
    /\ DOMAIN record.outputs[1] \cap XmlColumns = {}

\* row carries the comparison values the map holds for its document key
CarriesXml(row) ==
    /\ XmlColumns \subseteq DOMAIN row
    /\ \A c \in XmlColumns : row[c] = xml_map[row["Chave"]][c]

\* C17 as stated: at the end of the pass every item row, of an inbound or of
\* an outbound document, and every output summary row whose document key is
\* in the map carries the comparison values of the map.
C17_EveryRowCarriesXml ==
    pc = "done" =>
        \A row \in EmittedRows :
            row["Chave"] \in DOMAIN xml_map => CarriesXml(row)

\* C17 amended: at the end of the pass every item row of an inbound document
\* and every output summary row whose document key is in the map carries the
\* comparison values of the map; the item rows of outbound documents carry no
\* comparison column.
C17_InboundItemsAndSummariesCarryXml ==
    pc = "done" =>
        /\ \A row \in EmittedRows :
              (row["Chave"] \in DOMAIN xml_map
                 /\ (row["Tipo Nota"] = "Entrada" \/ "Valor Operacao" \in DOMAIN row))
                  => CarriesXml(row)
        /\ \A i \in DOMAIN record.items :
              record.items[i]["Tipo Nota"] = "Saida"
                  => DOMAIN record.items[i] \cap XmlColumns = {}

\* an outbound document whose key is in the map ended the pass with its
\* summary row carrying the comparison values and its item row without them
C17_Witness ==
    /\ pc = "done"
    /\ Len(record.outputs) = 1
    /\ record.outputs[1]["Chave"] \in DOMAIN xml_map
    /\ record.outputs[1]["Valor ICMS XML"] = 15
    /\ Len(record.items) = 1
    /\ record.items[1]["Chave"] \in DOMAIN xml_map
    /\ DOMAIN record.items[1] \cap XmlColumns = {}

-----------------------------------------------------------------------------
(* Properties of the aggregation *)

\* the collections handed to aggregate_records
items_in == Rows(records, "items")
entries_in == Rows(records, "entries")
outputs_in == Rows(records, "outputs")

\* aggregate_records has returned its tables
Aggregated == pc = "exit" /\ sheets # None

\* the grouping columns of the state-grouped summary other than the state
OtherUfCfopCols == {"Competencia", "CNPJ", "Razao Social", "CFOP"}

OfKey(rows, k) == {j \in DOMAIN rows : Restrict(rows[j], BalanceKey) = k}

\* the {tax ID, period} keys that occur in a collection
KeysOf(rows) == {Restrict(rows[j], BalanceKey) : j \in DOMAIN rows}

\* C19: the tax-balance table has exactly one row per {tax ID, period} key of
\* the inbound item rows and the outbound summary rows; the recoverable side
\* is the sum of the inbound tax amounts of the key, the payable side the sum
\* of the outbound tax amounts, a missing side is zero, and each signed
\* difference is recoverable minus payable.
C19_BalancePerKey ==
    Aggregated =>
        /\ "Saldo Impostos" \in DOMAIN sheets
        /\ LET t == sheets["Saldo Impostos"]
               ins(r) == OfKey(entries_in, Restrict(r, BalanceKey))
               outs(r) == OfKey(outputs_in, Restrict(r, BalanceKey))
           IN  /\ {Restrict(r, BalanceKey) : r \in t}
                     = KeysOf(entries_in) \cup KeysOf(outputs_in)
               /\ Cardinality(t) = Cardinality(KeysOf(entries_in) \cup KeysOf(outputs_in))
               /\ \A r \in t :
                     /\ r["ICMS a Recuperar (Entradas)"]
                           = SumCol(entries_in, ins(r), "Valor ICMS Item")
                     /\ r["IPI a Recuperar (Entradas)"]
                           = SumCol(entries_in, ins(r), "Valor IPI Item")
                     /\ r["ICMS a Pagar (Saidas)"]
                           = SumCol(outputs_in, outs(r), "Valor ICMS")
                     /\ r["IPI a Pagar (Saidas)"]
                           = SumCol(outputs_in, outs(r), "Valor IPI Nota")
                     /\ r["Saldo ICMS (Cred - Deb)"]
                           = r["ICMS a Recuperar (Entradas)"] - r["ICMS a Pagar (Saidas)"]
                     /\ r["Saldo IPI (Cred - Deb)"]
                           = r["IPI a Recuperar (Entradas)"] - r["IPI a Pagar (Saidas)"]

\* inbound 30 and outbound 50 of company X give 30, 50, -20, next to a row of
\* company Y that has no inbound side
C19_Witness ==
    /\ Aggregated
    /\ "Saldo Impostos" \in DOMAIN sheets
    /\ \E r \in sheets["Saldo Impostos"] :
          /\ r["CNPJ"] = "X" /\ r["Competencia"] = "01/2024"
          /\ r["ICMS a Recuperar (Entradas)"] = 30
          /\ r["ICMS a Pagar (Saidas)"] = 50
          /\ r["Saldo ICMS (Cred - Deb)"] = 0 - 20
    /\ \E r \in sheets["Saldo Impostos"] :
          /\ r["CNPJ"] = "Y"
          /\ r["ICMS a Recuperar (Entradas)"] = 0
          /\ r["ICMS a Pagar (Saidas)"] = 50

\* max(0, (tax1 payable - tax1 recoverable) + (tax2 payable - tax2 recoverable))
NetOf(b) ==
    LET x == (b["ICMS a Pagar (Saidas)"] - b["ICMS a Recuperar (Entradas)"])
             + (b["IPI a Pagar (Saidas)"] - b["IPI a Recuperar (Entradas)"])
    IN  IF x >= 0 THEN x ELSE 0

\* the balance rows of the company and period of the KPI row r
Matching(r) ==
    {b \in sheets["Saldo Impostos"] :
        b["CNPJ"] = r["CNPJ"] /\ b["Competencia"] = r["Competencia"]}

HasIndicators == Aggregated /\ "Indicadores Fiscais" \in DOMAIN sheets

\* C20 as stated: the tax-over-revenue indicator of a KPI row is 100 x net
\* payable / revenue of the matching balance row, with net payable clamped at
\* zero, and is zero when revenue is zero or no balance row matches.
C20_RatioUnlessZero ==
    HasIndicators =>
        \A r \in sheets["Indicadores Fiscais"] :
            r["Imposto/Faturamento (%)"] =
                IF r["Receita"] = 0 \/ Matching(r) = {} THEN 0
                ELSE Percent(NetOf(CHOOSE b \in Matching(r) : TRUE), r["Receita"])

\* C20 (amended): the indicator is 100 x net payable / revenue of the matching
\* balance row, with net payable clamped at zero, when revenue is greater than
\* zero, and is zero when revenue is zero or negative or no balance row
\* matches.
C20_RatioWhenPositive ==
    HasIndicators =>
        \A r \in sheets["Indicadores Fiscais"] :
            r["Imposto/Faturamento (%)"] =
                IF r["Receita"] <= 0 \/ Matching(r) = {} THEN 0
                ELSE Percent(NetOf(CHOOSE b \in Matching(r) : TRUE), r["Receita"])

\* revenue 100 with payable 50 against recoverable 30 gives 20; a company
\* whose recoverable side exceeds its payable side gives 0
C20_Witness ==
    /\ HasIndicators
    /\ \E r \in sheets["Indicadores Fiscais"] :
          /\ r["Receita"] = 100
          /\ \E b \in Matching(r) : b["ICMS a Pagar (Saidas)"] = 50
                                    /\ b["ICMS a Recuperar (Entradas)"] = 30
          /\ r["Imposto/Faturamento (%)"] = 20

\* the period/company columns of the income statement
DreGroupCols == {"Competencia", "CNPJ", "Razao Social"}

\* the column c of the rows of category cat of the group of the KPI row r,
\* summed
DreValue(r, cat, c) ==
    SumSet({d \in sheets["DRE Fiscal"] :
               Restrict(d, DreGroupCols) = Restrict(r, DreGroupCols)
               /\ d["Categoria"] = cat}, c)

\* every group of the income statement has exactly one KPI row
OneKpiRowPerGroup ==
    LET groups == {Restrict(d, DreGroupCols) : d \in sheets["DRE Fiscal"]}
        kpi == sheets["Indicadores Fiscais"]
    IN  /\ {Restrict(r, DreGroupCols) : r \in kpi} = groups
        /\ Cardinality(kpi) = Cardinality(groups)

\* C21 as stated: the KPI row of every group has gross margin = revenue minus
\* cost and tax burden = 100 x revenue tax total / revenue, the burden being
\* zero when revenue is zero.
C21_BurdenUnlessZero ==
    HasIndicators =>
        /\ OneKpiRowPerGroup
        /\ \A r \in sheets["Indicadores Fiscais"] :
              /\ r["Receita"] = DreValue(r, "Receita", "Valor Contabil")
              /\ r["Margem Bruta"] = DreValue(r, "Receita", "Valor Contabil")
                                     - DreValue(r, "Custos", "Valor Contabil")
              /\ r["Carga Tributaria Efetiva (%)"] =
                    IF r["Receita"] = 0 THEN 0
                    ELSE Percent(DreValue(r, "Receita", "Total Impostos"), r["Receita"])

\* C21 (amended): the KPI row of every group has gross margin = revenue minus
\* cost, and tax burden = 100 x revenue tax total / revenue when revenue is
\* greater than zero, the burden being zero when revenue is zero or negative.
C21_BurdenWhenPositive ==
    HasIndicators =>
        /\ OneKpiRowPerGroup
        /\ \A r \in sheets["Indicadores Fiscais"] :
              /\ r["Receita"] = DreValue(r, "Receita", "Valor Contabil")
              /\ r["Margem Bruta"] = DreValue(r, "Receita", "Valor Contabil")
                                     - DreValue(r, "Custos", "Valor Contabil")
              /\ r["Carga Tributaria Efetiva (%)"] =
                    IF r["Receita"] <= 0 THEN 0
                    ELSE Percent(DreValue(r, "Receita", "Total Impostos"), r["Receita"])

\* company X with revenue 100 taxed 50 has burden 50, next to company Y that
\* has cost only: margin -100 and burden 0
C21_Witness ==
    /\ HasIndicators
    /\ \E r \in sheets["Indicadores Fiscais"] :
          /\ r["CNPJ"] = "X" /\ r["Receita"] = 100
          /\ r["Carga Tributaria Efetiva (%)"] = 50
    /\ \E r \in sheets["Indicadores Fiscais"] :
          /\ r["CNPJ"] = "Y" /\ r["Receita"] = 0 /\ r["Custos"] = 100
          /\ r["Margem Bruta"] = 0 - 100
          /\ r["Carga Tributaria Efetiva (%)"] = 0

-----------------------------------------------------------------------------
(* Properties of the pass over the lines *)

\* the document that is still open at the end of the lines read so far is
\* outbound and has no summary line
PendingAtEnd ==
    \E h \in 1..Len(lines) :
        /\ OpensOutbound(lines[h])
        /\ \A j \in (h + 1)..Len(lines) : ~IsHeader(lines[j]) /\ ~IsSummary(lines[j])

\* the pass has ended, normally or by the except clause
Returned == pc \in {"done", "failed"}

\* C22: the pass over a finite line sequence terminates; each iteration
\* consumes exactly one line, after the lines consumed before; and leaving the
\* loop at the end of the file consumes no line and appends the pending
\* outbound document without summary, and nothing else, to missing_c190.
C22_OnePassThenFlush ==
    /\ <>Returned
    /\ [][(pc = "lines" /\ pc' = "lines")
             => /\ Len(lines') = Len(lines) + 1
                /\ SubSeq(lines', 1, Len(lines)) = lines]_vars
    /\ [][(pc = "lines" /\ pc' = "done")
             => /\ lines' = lines
                /\ Len(record'.missing_c190)
                      = Len(record.missing_c190) + (IF PendingAtEnd THEN 1 ELSE 0)
                /\ SubSeq(record'.missing_c190, 1, Len(record.missing_c190))
                      = record.missing_c190
                /\ PendingAtEnd =>
                      Last(record'.missing_c190)["Chave"] = current_note_key]_vars

\* a file that ends on an outbound header: the flush after the loop records it
C22_Witness ==
    /\ pc = "done"
    /\ Len(lines) = MaxLines
    /\ OpensOutbound(lines[Len(lines)])
    /\ IsHeader(lines[1]) /\ ~OpensOutbound(lines[1])
    /\ Len(record.missing_c190) = 1
    /\ record.missing_c190[1]["Chave"] = Field(lines[Len(lines)], 9)

-----------------------------------------------------------------------------
(* Properties of the document header *)

\* the direction indicator of a header line
DirectionOf(p) == IF Len(p) > 2 THEN strip(p[3]) ELSE ""

\* the most recent header among the lines read so far has no recognised
\* direction
AfterUnrecognisedHeader ==
    /\ HasLine("C100")
    /\ DirectionOf(LastLine("C100")) \notin {"0", "1"}

\* C23: on a header line the document that was open, if it is outbound and
\* has no summary, is recorded as an anomaly (and no other document is); then
\* the open-document state is reset; then a document is opened only if the
\* direction is '0' or '1'.  After a header of another direction no document
\* is open, and item and summary lines emit no row.
C23_HeaderStepsInOrder ==
    /\ [][(pc = "lines" /\ pc' = "lines" /\ IsHeader(parts_read'))
            => /\ record'.missing_c190 =
                     IF /\ current_note # None
                        /\ ~current_note_is_entry
                        /\ ~current_note_has_c190
                     THEN Append(record.missing_c190, current_note)
                     ELSE record.missing_c190
               /\ ~current_note_has_c190'
               /\ IF DirectionOf(parts_read') \in {"0", "1"}
                  THEN /\ current_note' # None
                       /\ current_note'["Chave"] = Field(parts_read', 9)
                       /\ current_note_key' = Field(parts_read', 9)
                       /\ current_note_is_entry' = (DirectionOf(parts_read') = "0")
                  ELSE /\ current_note' = None
                       /\ current_note_key' = NoneStr
                       /\ ~current_note_is_entry']_vars
    /\ [][(pc = "lines" /\ pc' = "lines" /\ AfterUnrecognisedHeader
             /\ Rec(parts_read') \in {"C170", "C190"})
            => /\ record' = record
               /\ current_note' = None]_vars

\* an outbound header, then a header of direction '2', then a summary line:
\* the first document is the only anomaly and the summary line left no row
C23_Witness ==
    /\ Len(lines) = 3
    /\ OpensOutbound(lines[1])
    /\ IsHeader(lines[2]) /\ DirectionOf(lines[2]) = "2"
    /\ IsSummary(lines[3])
    /\ Len(record.missing_c190) = 1
    /\ record.missing_c190[1]["Chave"] = Field(lines[1], 9)
    /\ record.outputs = <<>>
    /\ current_note = None

-----------------------------------------------------------------------------
(* Properties of the freight slot *)

IsFreightHeader(p) == HasSeparator(p) /\ Rec(p) = "D100"
IsFreightSummary(p) == HasSeparator(p) /\ Rec(p) = "D190"

\* C24: a document header never changes the open freight document; a freight
\* header never changes the open transaction document, its key, its direction
\* or its has-summary mark; a freight summary row is emitted only by a
\* freight summary line read while a freight document is open.
C24_IndependentSlots ==
    /\ [][(pc = "lines" /\ pc' = "lines" /\ IsHeader(parts_read'))
            => (current_cte' = current_cte /\ record'.cte = record.cte)]_vars
    /\ [][(pc = "lines" /\ pc' = "lines" /\ IsFreightHeader(parts_read'))
            => /\ current_note' = current_note
               /\ current_note_key' = current_note_key
               /\ current_note_is_entry' = current_note_is_entry
               /\ current_note_has_c190' = current_note_has_c190
               /\ record' = record]_vars
    /\ [][(pc = "lines" /\ pc' = "lines")
            => (Len(record'.cte) > Len(record.cte)
                  <=> (IsFreightSummary(parts_read') /\ current_cte # None))]_vars

\* an outbound header, then a freight header, then a summary line: the
\* summary row belongs to the outbound document, and the freight document is
\* open beside it
C24_Witness ==
    /\ Len(lines) = 3
    /\ OpensOutbound(lines[1])
    /\ IsFreightHeader(lines[2])
    /\ IsSummary(lines[3])
    /\ Len(record.outputs) = 1
    /\ record.outputs[1]["Chave"] = Field(lines[1], 9)
    /\ current_cte # None
    /\ current_note_has_c190

-----------------------------------------------------------------------------
(* Properties of the adjustments *)

PerDocumentAdj == {"C195", "C197"}
PeriodLevelAdj == {"E111", "E115", "E116"}

\* no header was read, or the most recent one has no recognised direction
NoDocumentOpen == ~HasLine("C100") \/ AfterUnrecognisedHeader

\* the step appends exactly one adjustment, after those recorded before
OneAdjustmentAppended ==
    /\ Len(record'.adjustments) = Len(record.adjustments) + 1
    /\ SubSeq(record'.adjustments, 1, Len(record.adjustments)) = record.adjustments

\* C25: a C195 or C197 line read while no document is open appends no
\* adjustment; every E111, E115 and E116 line appends exactly one adjustment,
\* of its register and without document reference, whether a document is open
\* or not.
C25_DroppedOrAlwaysRecorded ==
    /\ [][(pc = "lines" /\ pc' = "lines" /\ NoDocumentOpen
             /\ Rec(parts_read') \in PerDocumentAdj)
            => record' = record]_vars
    /\ [][(pc = "lines" /\ pc' = "lines" /\ Rec(parts_read') \in PeriodLevelAdj)
            => /\ OneAdjustmentAppended
               /\ Last(record'.adjustments)["Tipo Registro"] = Rec(parts_read')
               /\ Last(record'.adjustments)["Nota"] = ""]_vars

\* with no document open, a C197 line left nothing and the E116 and E115
\* lines left one adjustment each
C25_Witness ==
    /\ Len(lines) = 3
    /\ Rec(lines[1]) = "C197"
    /\ Rec(lines[2]) = "E116"
    /\ Rec(lines[3]) = "E115"
    /\ current_note = None
    /\ Len(record.adjustments) = 2
    /\ record.adjustments[1]["Tipo Registro"] = "E116"
    /\ record.adjustments[1]["Codigo Ajuste"] = "REC1"
    /\ record.adjustments[2]["Tipo Registro"] = "E115"

\* a document is open: the most recent header has a recognised direction
DocumentOpen == HasLine("C100") /\ ~AfterUnrecognisedHeader

\* the adjustment just appended references the document of the last header
ReferencesOpenDocument ==
    /\ OneAdjustmentAppended
    /\ Last(record'.adjustments)["Tipo Registro"] = Rec(parts_read')
    /\ Last(record'.adjustments)["Nota"] = Field(LastLine("C100"), 9)

\* C26 as stated: every C195 or C197 line read while a document is open
\* appends exactly one adjustment that references the key of that document.
C26_EveryLineAppends ==
    [][(pc = "lines" /\ pc' = "lines" /\ DocumentOpen
          /\ Rec(parts_read') \in PerDocumentAdj)
         => ReferencesOpenDocument]_vars

\* C26 (amended): while a document is open, every C197 line and every C195
\* line with a non-blank text appends exactly one adjustment that references
\* the key of that document; a C195 line with a blank text appends nothing.
C26_BlankObservationDropped ==
    [][(pc = "lines" /\ pc' = "lines" /\ DocumentOpen
          /\ Rec(parts_read') \in PerDocumentAdj)
         => IF Rec(parts_read') = "C195" /\ Field(parts_read', 3) = ""
            THEN record' = record
            ELSE ReferencesOpenDocument]_vars

\* under the inbound document K2 a C195 line with text and a C197 line left
\* one adjustment each, both referencing K2
C26_Witness ==
    /\ Len(lines) = 3
    /\ IsHeader(lines[1]) /\ Field(lines[1], 9) = "K2"
    /\ Rec(lines[2]) = "C195"
    /\ Rec(lines[3]) = "C197"
    /\ Len(record.adjustments) = 2
    /\ record.adjustments[1]["Nota"] = "K2"
    /\ record.adjustments[1]["Descricao Ajuste"] = "DIFAL"
    /\ record.adjustments[2]["Nota"] = "K2"
    /\ record.adjustments[2]["Valor Ajuste"] = 10

-----------------------------------------------------------------------------
(* Properties of the period blocks *)

\* the positions of the lines of register reg read so far
LinesOf(reg) == {i \in 1..Len(lines) : Rec(lines[i]) = reg}

\* the positions of the E300 lines that opened a context (more than 4 fields)
OpenedE300 == {i \in LinesOf("E300") : Len(lines[i]) > 4}

\* no E310 line was read since the last E300 line that opened a context
NoE310SinceE300 ==
    \A h \in OpenedE300 :
        (\A k \in OpenedE300 : k <= h) => \A j \in LinesOf("E310") : j < h

\* the line about to be read, of register reg, has no matching open parent
Orphan(reg) ==
    CASE reg = "E210" -> LinesOf("E200") = {}
      [] reg = "E310" -> LinesOf("E300") = {}
      [] reg = "E510" -> LinesOf("E500") = {}
      [] reg = "E316" -> NoE310SinceE300
      [] OTHER -> FALSE

\* the period-block collections of the record
BlockRows(r) == <<r.st_blocks, r.difal_blocks, r.ipi_blocks>>

\* a row is appended to a period-block collection only by the terminal line
\* of its group
RowsOnlyOnTerminal ==
    /\ Len(record'.st_blocks) > Len(record.st_blocks) => Rec(parts_read') = "E210"
    /\ Len(record'.difal_blocks) > Len(record.difal_blocks) => Rec(parts_read') = "E316"
    /\ Len(record'.ipi_blocks) > Len(record.ipi_blocks) => Rec(parts_read') = "E510"

\* C27 as stated: a child line without matching open parent emits no row and
\* changes no state, and a period-block row is appended only on the terminal
\* line of its group.
C27_OrphanChangesNothing ==
    /\ [][(pc = "lines" /\ pc' = "lines" /\ Orphan(Rec(parts_read')))
            => UNCHANGED <<record, parser_locals>>]_vars
    /\ [][(pc = "lines" /\ pc' = "lines") => RowsOnlyOnTerminal]_vars

\* C27 (amended): a child line without matching open parent emits no row and
\* changes no state but the presence flag of its block (E2, E3), which it
\* sets; a period-block row is appended only on the terminal line of its
\* group.
C27_OrphanSetsPresenceFlagOnly ==
    /\ [][(pc = "lines" /\ pc' = "lines" /\ Orphan(Rec(parts_read')))
            => /\ UNCHANGED <<record, ncm_map, desc_map, current_note, current_note_key,
                              current_note_is_entry, current_note_has_c190,
                              current_cte, block_locals, master>>
               /\ block_flags' =
                     [block_flags EXCEPT
                        !["has_block_e200"] = @ \/ Rec(parts_read') = "E210",
                        !["has_block_e300"] = @ \/ Rec(parts_read') \in {"E310", "E316"}]]_vars
    /\ [][(pc = "lines" /\ pc' = "lines") => RowsOnlyOnTerminal]_vars

\* an E210 line before the E200 line left no row but set the flag; the E210
\* line after the E200 line left the one row of the block
C27_Witness ==
    /\ Len(lines) = 3
    /\ Rec(lines[1]) = "E210"
    /\ Rec(lines[2]) = "E200" /\ Len(lines[2]) > 4
    /\ Rec(lines[3]) = "E210"
    /\ Len(record.st_blocks) = 1
    /\ record.st_blocks[1]["UF"] = Field(lines[2], 2)
    /\ record.st_blocks[1]["Ind Mov"] = Field(lines[3], 2)
    /\ block_flags["has_block_e200"]

-----------------------------------------------------------------------------
(* Properties of the catalog *)

\* map new is map old with product cod set to val when val is not blank, and
\* is map old otherwise
StoredUnlessBlank(old, new, cod, val) ==
    /\ DOMAIN new = DOMAIN old \cup (IF val # "" THEN {cod} ELSE {})
    /\ \A c \in DOMAIN new :
          new[c] = IF c = cod /\ val # "" THEN val ELSE old[c]

\* C28: a catalog line with a product code stores its classification only
\* when that is not blank and its description only when that is not blank,
\* leaving the stored value otherwise and other products in any case; a
\* catalog line with a blank product code leaves the catalog unchanged; and a
\* catalog line changes nothing else and never ends the pass.
C28_BlankFieldsLeaveCatalog ==
    [][(pc = "lines" /\ Len(lines') > Len(lines)
          /\ HasSeparator(parts_read') /\ Rec(parts_read') = "0200")
         => /\ pc' = "lines"
            /\ record' = record
            /\ IF Field(parts_read', 2) = ""
               THEN ncm_map' = ncm_map /\ desc_map' = desc_map
               ELSE /\ StoredUnlessBlank(ncm_map, ncm_map', Field(parts_read', 2),
                                         Field(parts_read', 8))
                    /\ StoredUnlessBlank(desc_map, desc_map', Field(parts_read', 2),
                                         Field(parts_read', 3))]_vars

\* P001 was stored with both values, then a line without description changed
\* its classification only, then a line without classification changed its
\* description only
C28_Witness ==
    /\ lines = <<L0200, L0200NoDesc, L0200NoNcm>>
    /\ ncm_map = ("P001" :> "87654321")
    /\ desc_map = ("P001" :> "Gadget")

-----------------------------------------------------------------------------
(* Properties of the master data *)

\* the dates of 8 digits among the date texts of the lines
EightDigits == {"01012024", "31012024", "01022024", "29022024"}

\* digits 3-4, '/', digits 5-8 of a date of 8 digits
MonthSlashYear(d) ==
    CASE d \in {"01012024", "31012024"} -> "01/2024"
      [] d \in {"01022024", "29022024"} -> "02/2024"

\* the competence a header line gives: from its period start if that has 8
\* digits, else from its period end if that has 8 digits, else the one held
DerivedCompetence(p, held) ==
    LET start == IF Len(p) > 3 THEN p[4] ELSE ""
        end == IF Len(p) > 4 THEN p[5] ELSE ""
    IN  IF start \in EightDigits THEN MonthSlashYear(start)
        ELSE IF end \in EightDigits THEN MonthSlashYear(end)
        ELSE held

IsMasterHeader(p) == HasSeparator(p) /\ Rec(p) = "0000"

\* C29 as stated: every header (0000) line sets the competence from its
\* period start, else from its period end, else keeps it.
C29_CompetenceFromEveryHeader ==
    [][(pc = "lines" /\ pc' = "lines" /\ IsMasterHeader(parts_read'))
         => master'["competence"]
               = DerivedCompetence(parts_read', master["competence"])]_vars

\* C29 (amended): a header (0000) line of more than 8 fields sets the
\* competence from its period start, else from its period end, else keeps it;
\* a header line of 8 fields or fewer leaves the competence, and the other
\* master data, as they are.
C29_CompetenceFromFullHeader ==
    [][(pc = "lines" /\ pc' = "lines" /\ IsMasterHeader(parts_read'))
         => IF Len(parts_read') > 8
            THEN master'["competence"]
                    = DerivedCompetence(parts_read', master["competence"])
            ELSE master' = master]_vars

\* a February header, then a header whose start is not a date (the end date
\* of February is used), then a header with a January start and a February
\* end (the start is used)
C29_Witness ==
    /\ lines = <<L0000Feb, L0000BadStart, L0000StartWins>>
    /\ master["competence"] = "01/2024"

-----------------------------------------------------------------------------
(* Properties of the fixed-asset/consumption collection *)

\* the fixed-asset/consumption codes
UsoCodes == {"1556", "1407", "1551", "1406", "2551", "2556", "2406", "2407"}

\* the item row belongs in the fixed-asset/consumption collection
IsUsoItem(row) ==
    row["Tipo Nota"] = "Entrada" /\ replace_dots(row["CFOP"]) \in UsoCodes

\* the credit situation of an item row
Situation(row) ==
    IF row["Valor ICMS Item"] * 1000 > 1 \/ row["Valor IPI Item"] * 1000 > 1
    THEN "Inconsistente" ELSE "Consistente"

\* C30: an item of an inbound document whose classification code, dots
\* removed, is a fixed-asset/consumption code is appended to imob_uso with
\* the situation 'improper credit' exactly when its ICMS amount or its IPI
\* amount exceeds 0.001; no other line appends to imob_uso.
C30_UsoItemsFlagged ==
    [][(pc = "lines" /\ pc' = "lines")
         => IF Len(record'.items) > Len(record.items) /\ IsUsoItem(Last(record'.items))
            THEN record'.imob_uso =
                    Append(record.imob_uso,
                           Update(Last(record'.items),
                                  "Situacao Credito" :> Situation(Last(record'.items))))
            ELSE record'.imob_uso = record.imob_uso]_vars

\* under an inbound document an item of code 1.556 with tax is flagged and an
\* item of code 2551 without tax is consistent
C30_Witness ==
    /\ Len(lines) = 3
    /\ Len(record.imob_uso) = 2
    /\ record.imob_uso[1]["CFOP"] = "1.556"
    /\ record.imob_uso[1]["Situacao Credito"] = "Inconsistente"
    /\ record.imob_uso[2]["CFOP"] = "2551"
    /\ record.imob_uso[2]["Situacao Credito"] = "Consistente"


-----------------------------------------------------------------------------
(* Properties of the presence flags *)

\* some emitted output summary row has its code, dots removed, in codes
SomeOutputIn(codes) ==
    \E i \in 1..Len(record.outputs) :
        replace_dots(record.outputs[i]["CFOP"]) \in codes

\* the flag agrees with the emitted output summary rows
FlagAgrees(flags, flag, codes) == flags[flag] <=> SomeOutputIn(codes)

FlagsAgree(flags) ==
    /\ FlagAgrees(flags, "has_st_cfop", {"5401", "5403", "5405", "6401", "6403"})
    /\ FlagAgrees(flags, "has_st_cfop_divergence", {"5401", "5403", "6403"})
    /\ FlagAgrees(flags, "has_difal_cfop", {"6107", "6108"})

SummaryFlags(flags) ==
    <<flags["has_st_cfop"], flags["has_st_cfop_divergence"], flags["has_difal_cfop"]>>

\* C31: after every line, and in the flags saved at the end of the pass, each
\* summary-driven presence flag is true exactly when some emitted output
\* summary row has its code, dots removed, in the flag's set; a summary line
\* read under an inbound document or with no document open sets none of them.
C31_FlagsFollowOutputRows ==
    /\ [](pc = "lines" => FlagsAgree(block_flags))
    /\ [](pc = "done" => FlagsAgree(record.block_flags))
    /\ [][(pc = "lines" /\ pc' = "lines" /\ IsSummary(parts_read')
             /\ (current_note = None \/ current_note_is_entry))
            => SummaryFlags(block_flags') = SummaryFlags(block_flags)]_vars

\* the pass ended on an outbound document with one summary of code 6.403 and
\* one of code 5405: both ST flags are saved true, the DIFAL flag false
C31_Witness ==
    /\ pc = "done"
    /\ Len(record.outputs) = 2
    /\ record.outputs[1]["CFOP"] = "6.403"
    /\ record.outputs[2]["CFOP"] = "5405"
    /\ record.block_flags["has_st_cfop"]
    /\ record.block_flags["has_st_cfop_divergence"]
    /\ ~record.block_flags["has_difal_cfop"]


\* some header line read so far opened an outbound document
OutboundOpened == \E i \in 1..Len(lines) : OpensOutbound(lines[i])

FlagsConsistent(flags) ==
    /\ flags["has_st_cfop_divergence"] => flags["has_st_cfop"]
    /\ flags["has_c100_saida"] <=> OutboundOpened

\* C36: during a pass a presence flag that is true stays true; and after every
\* line, and in the flags saved at the end, has_st_cfop_divergence implies
\* has_st_cfop and has_c100_saida is true exactly when an outbound document
\* has been opened.
C36_FlagsMonotone ==
    /\ [][(pc = "lines" /\ pc' = "lines")
            => \A f \in DOMAIN block_flags : block_flags[f] => block_flags'[f]]_vars
    /\ [][(pc = "lines" /\ pc' = "done")
            => \A f \in DOMAIN block_flags : block_flags[f] => record'.block_flags[f]]_vars
    /\ [](pc = "lines" => FlagsConsistent(block_flags))
    /\ [](pc = "done" => FlagsConsistent(record.block_flags))

\* an orphan E210 line, an outbound header and a G110 line have been read:
\* the three flags they set are all true
C36_Witness ==
    /\ pc = "lines"
    /\ Len(lines) = 3
    /\ Rec(lines[1]) = "E210"
    /\ OpensOutbound(lines[2])
    /\ Rec(lines[3]) = "G110"
    /\ block_flags["has_block_e200"]
    /\ block_flags["has_c100_saida"]
    /\ block_flags["has_block_g110"]
    /\ ~block_flags["has_st_cfop"]


-----------------------------------------------------------------------------
(* Properties of the optional-layout fields of a document header *)

\* Python position i of line p is present and not blank
Filled(p, i) == Len(p) > i /\ strip(p[i + 1]) # ""

\* the number read for a field of positions hi and lo
Preferred(p, hi, lo) ==
    IF Filled(p, hi) THEN parse_float_br(p[hi + 1])
    ELSE IF Filled(p, lo) THEN parse_float_br(p[lo + 1])
    ELSE 0

\* the step reads a header line that opens a document
OpensDocument ==
    /\ pc = "lines" /\ pc' = "lines"
    /\ IsHeader(parts_read')
    /\ Recognised(parts_read')

\* C33: the document opened by a header line has as document total field 12
\* when it is present and not blank, else field 11, else zero; as tax base
\* field 21 else 20; as tax amount field 22 else 21; as excise amount field
\* 25 else 24.
C33_HigherPositionPreferred ==
    [][OpensDocument
         => /\ current_note'["Valor Total Nota"] = Preferred(parts_read', 12, 11)
            /\ current_note'["BC ICMS Nota"] = Preferred(parts_read', 21, 20)
            /\ current_note'["Valor ICMS Nota"] = Preferred(parts_read', 22, 21)
            /\ current_note'["Valor IPI Nota"] = Preferred(parts_read', 25, 24)]_vars

\* the document of a header with both positions filled has the numbers of the
\* higher positions
C33_Witness ==
    /\ pc = "lines"
    /\ Len(lines) > 0
    /\ parts_read = LC100Both
    /\ current_note # None
    /\ current_note["Valor Total Nota"] = 100
    /\ current_note["BC ICMS Nota"] = 100
    /\ current_note["Valor ICMS Nota"] = 15
    /\ current_note["Valor IPI Nota"] = 10

\* C34: the tax base and the tax amount of an opened document are never both
\* taken from the same field of the header line.
C34_BaseAndTaxFromDistinctFields ==
    [][OpensDocument
         => \/ SrcAlt(parts_read', 21, 20) = 0 - 1
            \/ SrcAlt(parts_read', 21, 20) # SrcAlt(parts_read', 22, 21)]_vars


-----------------------------------------------------------------------------
(* Soundness of the missing-summary anomalies *)

\* the positions of the header lines read so far that opened an outbound
\* document
OutboundHeaders == {i \in 1..Len(lines) : OpensOutbound(lines[i])}

\* an outbound document is open and can still receive a summary
OutboundStillOpen ==
    pc = "lines" /\ current_note # None /\ ~current_note_is_entry

\* a summary line was read after the most recent header
SummarySinceHeader ==
    \E h \in 1..Len(lines) :
        /\ IsHeader(lines[h])
        /\ \A j \in (h + 1)..Len(lines) : ~IsHeader(lines[j])
        /\ \E j \in (h + 1)..Len(lines) : IsSummary(lines[j])

\* C35: no anomaly is an inbound document; the has-summary mark of the open
\* outbound document is set exactly when a summary line was read since its
\* header, and a step appends at most one anomaly, which is the outbound
\* document that was open without that mark; and the anomalies together with
\* the outbound document still open never outnumber the outbound documents
\* opened, so no document is listed twice.
C35_AnomaliesSound ==
    /\ [](\A n \in 1..Len(record.missing_c190) :
             record.missing_c190[n]["Tipo Nota"] = "Saida")
    /\ [](OutboundStillOpen => (current_note_has_c190 <=> SummarySinceHeader))
    /\ [][record'.missing_c190 # record.missing_c190
            => /\ pc = "lines"
               /\ current_note # None
               /\ ~current_note_is_entry
               /\ ~current_note_has_c190
               /\ record'.missing_c190 = Append(record.missing_c190, current_note)]_vars
    /\ [](pc \in {"lines", "done"}
            => Len(record.missing_c190) + (IF OutboundStillOpen THEN 1 ELSE 0)
                 <= Cardinality(OutboundHeaders))

\* three lines were read: an outbound header that got a summary, then an
\* outbound header closed at the end of the file without one; only the second
\* document is an anomaly
C35_Witness ==
    /\ pc = "done"
    /\ Len(lines) = 3
    /\ OpensOutbound(lines[1])
    /\ IsSummary(lines[2])
    /\ OpensOutbound(lines[3])
    /\ Len(record.missing_c190) = 1
    /\ Len(record.outputs) = 1


-----------------------------------------------------------------------------
(* Properties of the scope of master data and catalog *)

\* the columns a document takes from the master data
MasterColumns == {"Competencia", "CNPJ", "Razao Social", "UF"}

\* the master data a document opened now would carry
MasterNow ==
    ("Competencia" :> master["competence"]
     @@ "CNPJ" :> master["company_cnpj"]
     @@ "Razao Social" :> master["company_name"]
     @@ "UF" :> master["company_cod_mun"])

\* the master columns of the rows of a collection
MasterOf(rows) == [i \in 1..Len(rows) |-> [c \in MasterColumns |-> rows[i][c]]]

\* the rows a collection had before the step are still its first rows, with
\* the same master columns and, for items, the same classification
RowsKept(f) ==
    /\ Len(record'[f]) >= Len(record[f])
    /\ \A i \in 1..Len(record[f]) :
          /\ \A c \in MasterColumns : record'[f][i][c] = record[f][i][c]
          /\ f = "items" => record'[f][i]["NCM Item"] = record[f][i]["NCM Item"]

\* the classification the catalog holds for a product code, '' when none
CatalogNcm(cod_item) == IF cod_item \in DOMAIN ncm_map THEN ncm_map[cod_item] ELSE ""

\* C37: a header that opens a document gives it the competence and company
\* identifiers of that moment; no other line changes the open document; an
\* emitted row carries the master columns of the open document, and an item
\* the classification the catalog held when its line was read; and no step
\* changes the master columns or the classification of a row emitted before.
C37_ValuesOfTheirMoment ==
    /\ [][OpensDocument
            => \A c \in MasterColumns : current_note'[c] = MasterNow[c]]_vars
    /\ [][(pc = "lines" /\ pc' = "lines" /\ ~IsHeader(parts_read'))
            => current_note' = current_note]_vars
    /\ [][(pc = "lines" /\ pc' = "lines" /\ Len(record'.items) > Len(record.items))
            => /\ \A c \in MasterColumns : Last(record'.items)[c] = current_note[c]
               /\ Last(record'.items)["NCM Item"]
                    = CatalogNcm(Last(record'.items)["Cod. Item"])]_vars
    /\ [][(pc = "lines" /\ pc' = "lines" /\ Len(record'.outputs) > Len(record.outputs))
            => \A c \in MasterColumns : Last(record'.outputs)[c] = current_note[c]]_vars
    /\ [][pc = "lines"
            => RowsKept("items") /\ RowsKept("entries") /\ RowsKept("outputs")]_vars

\* an inbound header read before any 0000 line, then a 0000 line, then an
\* item line: the item has the blank competence of its document, not the
\* competence read after the header
C37_Witness ==
    /\ pc = "lines"
    /\ Len(lines) = 3
    /\ IsHeader(lines[1])
    /\ Rec(lines[2]) = "0000"
    /\ Rec(lines[3]) = "C170"
    /\ Len(record.items) = 1
    /\ record.items[1]["Competencia"] = ""
    /\ master["competence"] = "01/2024"


-----------------------------------------------------------------------------
(* Attribution of the period-block rows *)

\* a parent header of register reg with more than 4 fields was read
HasParent(reg) ==
    \E i \in 1..Len(lines) : Rec(lines[i]) = reg /\ Len(lines[i]) > 4

\* the most recent such line
LastParent(reg) ==
    lines[CHOOSE i \in 1..Len(lines) :
            /\ Rec(lines[i]) = reg /\ Len(lines[i]) > 4
            /\ \A j \in (i + 1)..Len(lines) :
                  ~(Rec(lines[j]) = reg /\ Len(lines[j]) > 4)]

\* blk carries the state and the period bounds of parent header p
BoundsOf(blk, p) ==
    /\ blk["UF"] = Field(p, 2)
    /\ blk["Data Inicio"] = Field(p, 3)
    /\ blk["Data Fim"] = Field(p, 4)

\* the open block of a family is the one of its most recent parent header
OpenBlockIs(ctx, reg) ==
    /\ ctx # None <=> HasParent(reg)
    /\ ctx # None => BoundsOf(ctx, LastParent(reg))

\* the step reads a parent header of register reg that fails the gate
ShortParent(reg) ==
    /\ pc = "lines" /\ pc' = "lines"
    /\ Rec(parts_read') = reg
    /\ Len(parts_read') <= 4

\* C38: the open block of the E200 and of the E300 family, the correlated
\* E310 and every row appended to st_blocks and difal_blocks carry the state
\* and the period bounds of the most recent parent header of more than 4
\* fields of the family; a parent header of 4 fields or fewer leaves the open
\* blocks, the correlated E310 and the rows as they were.
C38_RowsOfLastGatedParent ==
    /\ [](pc = "lines" => /\ OpenBlockIs(current_e200, "E200")
                          /\ OpenBlockIs(current_e300, "E300")
                          /\ current_e310 # None
                               => /\ HasParent("E300")
                                  /\ BoundsOf(current_e310, LastParent("E300")))
    /\ [][(pc = "lines" /\ pc' = "lines" /\ record'.st_blocks # record.st_blocks)
            => /\ Len(record'.st_blocks) = Len(record.st_blocks) + 1
               /\ HasParent("E200")
               /\ BoundsOf(Last(record'.st_blocks), LastParent("E200"))]_vars
    /\ [][(pc = "lines" /\ pc' = "lines" /\ record'.difal_blocks # record.difal_blocks)
            => /\ Len(record'.difal_blocks) = Len(record.difal_blocks) + 1
               /\ HasParent("E300")
               /\ BoundsOf(Last(record'.difal_blocks), LastParent("E300"))]_vars
    /\ [][(ShortParent("E200") \/ ShortParent("E300"))
            => /\ current_e200' = current_e200
               /\ current_e300' = current_e300
               /\ current_e310' = current_e310
               /\ record' = record]_vars

\* an E200 header of state SP, then an E200 header of state RJ cut after the
\* state, then an E210 line: the row is the one of SP
C38_Witness ==
    /\ pc = "lines"
    /\ lines = <<LE200, LE200Short, LE210>>
    /\ Len(record.st_blocks) = 1
    /\ record.st_blocks[1]["UF"] = "SP"
    /\ record.st_blocks[1]["Data Fim"] = "31012024"


-----------------------------------------------------------------------------
(* Properties of the income-statement categories *)

DreCategories == {"Receita", "Outras Saidas", "Custos", "Despesas"}

\* the collection that feeds a category
SourceOf(cat) == IF cat \in {"Receita", "Outras Saidas"} THEN outputs_in ELSE entries_in

\* the rule of a category, on a code without dots
RuleOf(cat, code) ==
    CASE cat = "Receita" ->
           code \in {"5101", "5102", "5403", "5405", "6101", "6102", "6403"}
      [] cat = "Outras Saidas" ->
           \/ code \in {"5949", "6949", "6910", "5910"}
           \/ code \in {"5901", "5902", "6901", "6902"}     \* starts with 59 or 69
      [] cat = "Custos" ->
           code \in {"2102", "2101", "2403", "2405", "1102", "1101", "1403", "1405"}
      [] cat = "Despesas" -> code \in {"2551", "1551", "1933"}

\* the positions of the rows of its own collection that feed category cat
\* for the period and company k
Feeding(cat, k) ==
    {i \in DOMAIN SourceOf(cat) :
        /\ Restrict(SourceOf(cat)[i], DreGroupCols) = k
        /\ RuleOf(cat, replace_dots(SourceOf(cat)[i]["CFOP"]))}

\* the column of the source rows that a column of the statement sums
ValueColumn(cat, c) ==
    IF cat \in {"Receita", "Outras Saidas"}
    THEN (CASE c = "Valor Contabil" -> "Valor Total Nota"
            [] c = "ICMS" -> "Valor ICMS"
            [] c = "IPI" -> "Valor IPI Nota")
    ELSE (CASE c = "Valor Contabil" -> "Valor Total Item"
            [] c = "ICMS" -> "Valor ICMS Item"
            [] c = "IPI" -> "Valor IPI Item")

\* the periods and companies of the rows read
DreKeys ==
    {Restrict(outputs_in[i], DreGroupCols) : i \in DOMAIN outputs_in}
    \cup {Restrict(entries_in[i], DreGroupCols) : i \in DOMAIN entries_in}

\* the rows of the income statement, none when the sheet is not built
DreRows == IF "DRE Fiscal" \in DOMAIN sheets THEN sheets["DRE Fiscal"] ELSE {}

\* the rows of the statement for category cat and period and company k
DreRowsOf(cat, k) ==
    {d \in DreRows : d["Categoria"] = cat /\ Restrict(d, DreGroupCols) = k}

\* C32: for every category and every period and company, the statement has a
\* row exactly when some row of the category's own collection (outbound
\* summaries for Revenue and Other outbound, inbound items for Cost and
\* Expense) satisfies the category's rule on its code without dots, and that
\* row sums exactly those rows; no row satisfies the rules of two categories
\* of its collection.
C32_CategoriesFedByOwnRows ==
    Aggregated =>
        /\ \A cat \in DreCategories : \A k \in DreKeys :
              IF Feeding(cat, k) = {}
              THEN DreRowsOf(cat, k) = {}
              ELSE /\ Cardinality(DreRowsOf(cat, k)) = 1
                   /\ \A d \in DreRowsOf(cat, k) :
                         \A c \in {"Valor Contabil", "ICMS", "IPI"} :
                            d[c] = SumCol(SourceOf(cat), Feeding(cat, k),
                                          ValueColumn(cat, c))
        /\ \A d \in DreRows : Restrict(d, DreGroupCols) \in DreKeys
        /\ \A k \in DreKeys :
              /\ Feeding("Receita", k) \cap Feeding("Outras Saidas", k) = {}
              /\ Feeding("Custos", k) \cap Feeding("Despesas", k) = {}

\* an outbound summary of code 5.102 under a document of total 100 and an
\* inbound item of code 5102 and value 50: Revenue is 100, and there is no
\* Cost and no Expense row
C32_Witness ==
    /\ Aggregated
    /\ Len(outputs_in) = 1 /\ outputs_in[1]["CFOP"] = "5.102"
    /\ Len(entries_in) = 1 /\ entries_in[1]["CFOP"] = "5102"
    /\ \E d \in DreRows : d["Categoria"] = "Receita" /\ d["Valor Contabil"] = 100
    /\ Cardinality(DreRows) = 1


-----------------------------------------------------------------------------
(* The document total in the outbound sums *)

\* the documents of the outbound summary rows at the positions idx
DocsAt(idx) == {outputs_in[i]["Chave"] : i \in idx}

\* the total of document ch, which every one of its summary rows carries
DocTotal(ch) ==
    outputs_in[CHOOSE i \in DOMAIN outputs_in : outputs_in[i]["Chave"] = ch]["Valor Total Nota"]

\* the sum over the documents docs of the document total times the number of
\* its summary rows among the positions idx
RECURSIVE TotalsTimesRows(_, _)
TotalsTimesRows(docs, idx) ==
    IF docs = {} THEN 0
    ELSE LET ch == CHOOSE x \in docs : TRUE
         IN  DocTotal(ch) * Cardinality({i \in idx : outputs_in[i]["Chave"] = ch})
             + TotalsTimesRows(docs \ {ch}, idx)

\* the positions of the outbound summary rows grouped into row g of the
\* summary by classification and tax situation
GroupedInto(g) ==
    {i \in DOMAIN outputs_in :
        \A c \in DreGroupCols \cup {"CFOP", "CST ICMS"} : outputs_in[i][c] = g[c]}

\* C39: the Revenue value of a period and company, and the value of a row of
\* the outbound summary by classification and tax situation, is the sum over
\* the documents of the document total times the number of summary rows of
\* the document that match: a document with k matching summary rows
\* contributes its total k times.
C39_DocumentTotalPerSummaryRow ==
    Aggregated =>
        /\ \A i, j \in DOMAIN outputs_in :
              outputs_in[i]["Chave"] = outputs_in[j]["Chave"]
                 => outputs_in[i]["Valor Total Nota"] = outputs_in[j]["Valor Total Nota"]
        /\ \A k \in DreKeys : \A d \in DreRowsOf("Receita", k) :
              d["Valor Contabil"]
                 = TotalsTimesRows(DocsAt(Feeding("Receita", k)), Feeding("Receita", k))
        /\ "Resumo Saidas por CFOP-CST" \in DOMAIN sheets
              => \A g \in sheets["Resumo Saidas por CFOP-CST"] :
                    g["Valor Contabil"]
                       = TotalsTimesRows(DocsAt(GroupedInto(g)), GroupedInto(g))

\* the document of total 100 has the two revenue summary rows 5102 and 5.102:
\* Revenue is 200
C39_Witness ==
    /\ Aggregated
    /\ Len(outputs_in) = 2
    /\ outputs_in[1]["Chave"] = outputs_in[2]["Chave"]
    /\ outputs_in[1]["CFOP"] = "5102" /\ outputs_in[2]["CFOP"] = "5.102"
    /\ outputs_in[1]["Valor Total Nota"] = 100
    /\ \E d \in DreRows : d["Categoria"] = "Receita" /\ d["Valor Contabil"] = 200


-----------------------------------------------------------------------------
(* Conservation of the item amounts by the group-by summaries *)

\* the summaries built from the item rows
ItemSummaries == {"Resumo Itens por NCM-CFOP", "Resumo CFOP-NCM-CST", "Resumo NCM",
                  "Resumo UF-CFOP", "Ranking Produtos"}

\* the summed columns of a summary and the item columns they sum
SummedColumns == ("Valor Contabil" :> "Valor Total Item" @@ "BC ICMS" :> "BC ICMS Item"
                  @@ "ICMS" :> "Valor ICMS Item" @@ "IPI" :> "Valor IPI Item")

\* the rows of summary t whose grouping columns agree with item row r
GroupsOf(t, r) ==
    {g \in t : \A c \in DOMAIN g \ DOMAIN SummedColumns : g[c] = r[c]}

\* C40: in each of the five group-by summaries of the item rows, every summed
\* column adds up, over all the groups, to the sum of its column over all the
\* item rows, and every item row falls in exactly one group.
C40_GroupingConservesTotals ==
    (Aggregated /\ items_in # <<>>) =>
        \A n \in ItemSummaries :
            /\ n \in DOMAIN sheets
            /\ \A c \in DOMAIN SummedColumns :
                  SumSet(sheets[n], c) = SumCol(items_in, DOMAIN items_in, SummedColumns[c])
            /\ \A j \in DOMAIN items_in :
                  Cardinality(GroupsOf(sheets[n], items_in[j])) = 1

\* two items of one company and one product with the codes 1102 and 2551:
\* one group by product, two groups by code and product, the same total 200
C40_Witness ==
    /\ Aggregated
    /\ Len(items_in) = 2
    /\ items_in[1]["CFOP"] = "1102" /\ items_in[2]["CFOP"] = "2551"
    /\ items_in[1]["CNPJ"] = "X" /\ items_in[2]["CNPJ"] = "X"
    /\ Cardinality(sheets["Resumo NCM"]) = 1
    /\ Cardinality(sheets["Resumo Itens por NCM-CFOP"]) = 2
    /\ SumSet(sheets["Resumo NCM"], "Valor Contabil") = 200
    /\ SumSet(sheets["Resumo Itens por NCM-CFOP"], "Valor Contabil") = 200

====
